---- MODULE Spec2Model ----
(***************************************************************************)
(* Model of the Pinterest board scraper: lib/scraper.ts (markup            *)
(* extraction, feed pagination), app/api/scrape/route.ts and               *)
(* app/api/playwright-scrape/route.ts (browser harvester and fusion).      *)
(*                                                                         *)
(* Encoding of strings.                                                    *)
(*  - A name (pin id or file-name base) is a record [kind, len, n]: kind   *)
(*    is the character class of the string ("digits", "hex" = hex with at  *)
(*    least one letter a-f, "word" = letters and digits with a letter      *)
(*    outside a-f, "punct" = a word of len - 2 characters, an underscore   *)
(*    and one more letter, "none" = the empty string), len its length and  *)
(*    n tells equal-shaped strings apart.  Two names are the same string   *)
(*    iff the records are equal.                                           *)
(*  - A URL https://HOST/DIM/S1/../Sk/HASH.EXT is a record                 *)
(*    [host, dim, seg, hash, ext]: seg is the sequence <<S1, .., Sk>> of   *)
(*    the path segments between the first one and the file name, each a    *)
(*    word of letters and digits; dim = "" is a URL with no segment        *)
(*    between host and file name; ext = "" is a file name without a dot;   *)
(*    NoUrl is the empty string.  The first segments the model uses are    *)
(*    those of DimStrings.                                                 *)
(*  - Markup is a record [blob, nodes, legacy, imgs]: the __PWS_DATA__     *)
(*    script (absent / malformed JSON / valid JSON), the pin-like nodes of *)
(*    the blob in document order, the pins of the legacy state script and  *)
(*    the other CDN URL occurrences of the document in document order.     *)
(***************************************************************************)
EXTENDS Integers, Sequences, FiniteSets, TLC

(***************************************************************************)
(* Names and URLs                                                          *)
(***************************************************************************)
Nm(k, l, i) == [kind |-> k, len |-> l, n |-> i]

NoName == Nm("none", 0, 0)

Url(d, s, h, e) == [host |-> "i.pinimg.com", dim |-> d, seg |-> s, hash |-> h, ext |-> e]

NoUrl == [host |-> "", dim |-> "", seg |-> <<>>, hash |-> NoName, ext |-> ""]

\* /^[0-9a-f]{16,}$/i
HashPatternMinLen == 16

\* \d{15,} of the embedded-data pin pattern
PinIdMinDigits == 15

isValidPinHash(h) == h.kind \in {"digits", "hex"} /\ h.len >= HashPatternMinLen

IsLongNumericId(id) == id.kind = "digits" /\ id.len >= PinIdMinDigits

\* url.replace(/https:\/\/i\.pinimg\.com\/(\d+x|\w+)\//, `https://i.pinimg.com/${size}/`)
transformImageUrl(u, size) ==
    IF u.host = "i.pinimg.com" /\ u.dim # "" THEN [u EXCEPT !.dim = size] ELSE u

\* the file name of the last path segment, up to its first dot; null (NoName) if empty
getHashFromUrl(u) == u.hash

\* u.match(/https:\/\/i\.pinimg\.com\/(\d+x|\w+)\//)
getDimensionFromUrl(u) == IF u.host = "i.pinimg.com" THEN u.dim ELSE ""

\* imageUrl.split('/').slice(-1)[0].split('.')[0]
LastSegmentHash(u) == u.hash

NonContentSegs == {"user", "avatars", "static", "boards", "closeup"}

\* u.includes('/user/') || u.includes('/avatars/') || u.includes('/static/') ||
\* u.includes('/boards/') || u.includes('/closeup/'): a segment between two slashes
HasNonContentSegment(u) ==
    u.dim \in NonContentSegs \/ \E i \in DOMAIN u.seg : u.seg[i] \in NonContentSegs

\* the first path segments of the URLs of the model
DimStrings ==
    {"", "170x", "236x", "474x", "564x", "736x", "originals", "600x315", "avatars",
     "30x30", "75x75", "200x150", "30x30_RS", "75x75_RS", "140x140_RS", "280x280_RS"}

(***************************************************************************)
(* Pin records and items                                                   *)
(*  A raw pin (a node of the embedded blob, or a record of a feed          *)
(*  response) is [id, hasImages, images, title, tag, layout, depth]; images *)
(*  maps                                                                   *)
(*  each size key to a URL or NoUrl; tag is "pin", "related" (section_type *)
(*  related / type story) or "skipkey" (below a key the tree walk skips);  *)
(*  layout "idFirst" is a node serialised as {"id":"..",.."images":{..;    *)
(*  depth is the number of objects and arrays around the node in the blob. *)
(***************************************************************************)
SizeKeys == {"236x", "474x", "564x", "736x", "orig", "originals"}

Images(t236, t474, t564, t736, o) ==
    [k \in SizeKeys |->
        CASE k = "236x" -> t236
          [] k = "474x" -> t474
          [] k = "564x" -> t564
          [] k = "736x" -> t736
          [] k = "orig" -> o
          [] OTHER -> NoUrl]

ThumbOnly(u) == Images(u, NoUrl, NoUrl, NoUrl, NoUrl)

RawPin(id, imgs, title) ==
    [id |-> id, hasImages |-> TRUE, images |-> imgs, title |-> title,
     tag |-> "pin", layout |-> "idFirst", depth |-> 4]

\* the same record further down in the blob
AtDepth(pin, d) == [pin EXCEPT !.depth = d]

\* a || b for URL strings
OrUrl(a, b) == IF a # NoUrl THEN a ELSE b

Item(id, thumb, medium, large, original, title) ==
    [id |-> id, url |-> thumb, thumbnail |-> thumb, medium |-> medium,
     large |-> large, original |-> original, title |-> title]

\* extractImageFromPin: <<>> is null
extractImageFromPin(pin) ==
    IF ~pin.hasImages THEN <<>>
    ELSE LET thumbnail == pin.images["236x"] IN
         IF thumbnail = NoUrl THEN <<>>
         ELSE << Item(pin.id, thumbnail,
                      OrUrl(pin.images["474x"],
                            OrUrl(pin.images["564x"], transformImageUrl(thumbnail, "474x"))),
                      OrUrl(pin.images["736x"],
                            OrUrl(pin.images["564x"], transformImageUrl(thumbnail, "736x"))),
                      OrUrl(pin.images["orig"],
                            OrUrl(pin.images["originals"], transformImageUrl(thumbnail, "originals"))),
                      pin.title) >>

\* buildImageFromPin of the playwright route: <<>> is null
buildImageFromPin(pin) ==
    IF pin.id = NoName \/ ~pin.hasImages THEN <<>> ELSE extractImageFromPin(pin)

Ids(items) == {items[i].id : i \in DOMAIN items}

NoDuplicateIds(items) == \A i, j \in DOMAIN items : items[i].id = items[j].id => i = j

(***************************************************************************)
(* Loops over a list that skip an element whose key was already taken.     *)
(*  The source loops keep a Set of keys and `continue` on a key already in *)
(*  it; the element kept for a key is the first one that reaches the       *)
(*  Set.add.  FirstIdx is the set of positions such a loop reaches the add *)
(*  at, SubSeqAt the elements at a set of positions, in order.             *)
(***************************************************************************)
Indexed(S) == [i \in DOMAIN S |-> [idx |-> i, val |-> S[i]]]

Values(R) == [j \in DOMAIN R |-> R[j].val]

SubSeqAt(S, I) == Values(SelectSeq(Indexed(S), LAMBDA e : e.idx \in I))

FirstIdx(S, Pass(_), Key(_)) ==
    {i \in DOMAIN S :
        Pass(S[i]) /\ \A k \in 1..(i - 1) : ~(Key(S[k]) = Key(S[i]) /\ Pass(S[k]))}

Take(S, n) == IF Len(S) <= n THEN S ELSE SubSeq(S, 1, n)

IdOf(x) == x.id

(***************************************************************************)
(* extractAllPinsFromData: the regex phase over the serialised blob, then  *)
(* the tree walk findPinsInStructure when fewer than 20 pins were found.   *)
(***************************************************************************)
RegexPinLimit == 100

RecursiveSearchBelow == 20

\* pattern 1 matches a node serialised id-first with a long numeric id and a
\* 236x url; pattern 2 (images first) binds pinId to the url and imageUrl to
\* the id, so its matches fail the i.pinimg.com test and add no image.
RegexMatchesNode(node) ==
    /\ node.layout = "idFirst"
    /\ IsLongNumericId(node.id)
    /\ node.hasImages
    /\ node.images["236x"] # NoUrl

RegexImage(node) ==
    LET imageUrl == node.images["236x"] IN
    Item(node.id, imageUrl, transformImageUrl(imageUrl, "474x"),
         transformImageUrl(imageUrl, "736x"), transformImageUrl(imageUrl, "originals"), "")

\* the while loop over the matches of pattern 1: skip a processed id, add the id
\* to processedIds, skip a url outside i.pinimg.com, push, break at the limit
RegexPhase(nodes) ==
    LET reached == SubSeqAt(nodes, FirstIdx(nodes, RegexMatchesNode, IdOf))
        kept == SelectSeq(reached, LAMBDA n : n.images["236x"].host = "i.pinimg.com")
    IN Take([j \in DOMAIN kept |-> RegexImage(kept[j])], RegexPinLimit)

\* if (!obj || typeof obj !== 'object' || depth > 10) return
MaxWalkDepth == 10

\* the nodes the tree walk tests: within the depth limit, not below a skipped key,
\* with id and images
TreeVisits(node) ==
    /\ node.depth <= MaxWalkDepth
    /\ node.tag # "skipkey"
    /\ node.id # NoName
    /\ node.hasImages

\* findPinsInStructure(data, images, processedIds): a visited node whose id is not
\* processed is dropped if related/story, else its id is processed and its image,
\* if extractImageFromPin gives one, is pushed
findPinsInStructure(nodes, processedIds) ==
    LET reached == SubSeqAt(nodes,
                       FirstIdx(nodes,
                                LAMBDA n : TreeVisits(n) /\ n.id \notin processedIds
                                           /\ n.tag # "related",
                                IdOf))
        kept == SelectSeq(reached, LAMBDA n : extractImageFromPin(n) # <<>>)
    IN [j \in DOMAIN kept |-> extractImageFromPin(kept[j])[1]]

extractAllPinsFromData(nodes) ==
    LET images == RegexPhase(nodes)
        processedIds == {nodes[i].id : i \in {k \in DOMAIN nodes : RegexMatchesNode(nodes[k])}}
    IN IF Len(images) < RecursiveSearchBelow
       THEN images \o findPinsInStructure(nodes, processedIds)
       ELSE images

\* extractBoardPins over the legacy state script: feed pins, de-duplicated by id
extractBoardPins(pins) ==
    LET reached == SubSeqAt(pins, FirstIdx(pins, LAMBDA q : q.id # NoName, IdOf))
        kept == SelectSeq(reached, LAMBDA q : extractImageFromPin(q) # <<>>)
    IN [j \in DOMAIN kept |-> extractImageFromPin(kept[j])[1]]

(***************************************************************************)
(* The heuristic pass of extractImagesFromHtml.                            *)
(*  An occurrence of a CDN URL in the markup is [url, ctx, n]: ctx is the  *)
(*  text around it ("json" = "url":"..", "src" = src="..", "dsrc" =        *)
(*  data-src="..", "sq" = 'url':'..', "jsurl" = url: "..", "bare" = not    *)
(*  quoted), n the number of times it is repeated in a row.                *)
(***************************************************************************)
Occ(u, ctx, n) == [url |-> u, ctx |-> ctx, n |-> n]

ImgPatterns == 1..7

ComprehensiveDims ==
    {"170x", "200x150", "236x", "474x", "564x", "736x", "originals", "75x75_RS", "30x30_RS"}

\* whether imgPatterns[p] matches the occurrence
PatternMatches(p, occ) ==
    /\ occ.url.host = "i.pinimg.com"
    /\ CASE p = 1 -> occ.ctx \in {"json", "src", "dsrc", "jsurl"}
         [] p = 2 -> occ.ctx \in {"src", "dsrc"}
         [] p = 3 -> occ.ctx = "dsrc"
         [] p = 4 -> occ.ctx = "json"
         [] p = 5 -> occ.ctx = "sq"
         [] p = 6 -> occ.ctx = "jsurl"
         [] OTHER -> occ.url.dim \in ComprehensiveDims

\* the part of a file name that [a-zA-Z0-9\/\.]+ can run through
AlnumPrefix(h) == IF h.kind = "punct" THEN Nm("word", h.len - 2, h.n) ELSE h

\* match[1] of imgPatterns[p] on the occurrence: patterns 1 to 6 capture up to the
\* closing quote, pattern 7 stops at the first character outside [a-zA-Z0-9/.]
Captured(p, occ) ==
    IF p = 7 /\ occ.url.hash.kind = "punct"
    THEN [occ.url EXCEPT !.hash = AlnumPrefix(occ.url.hash), !.ext = ""]
    ELSE occ.url

\* the URL strings of a pin record as they stand in a script, in key order
KeyOrder == <<"236x", "474x", "564x", "736x", "orig", "originals">>

PinsOccs(pins) ==
    LET nk == Len(KeyOrder)
        all == [j \in 1..(Len(pins) * nk) |->
                   LET pin == pins[((j - 1) \div nk) + 1]
                       key == KeyOrder[((j - 1) % nk) + 1]
                   IN IF pin.hasImages THEN pin.images[key] ELSE NoUrl]
        kept == SelectSeq(all, LAMBDA u : u # NoUrl)
    IN [j \in DOMAIN kept |-> Occ(kept[j], "json", 1)]

\* every CDN URL occurrence of the document, in document order
Occurrences(html) ==
    (IF html.blob = "absent" THEN <<>> ELSE PinsOccs(html.nodes))
    \o PinsOccs(html.legacy) \o html.imgs

\* the matches, over all patterns, that capture a URL whose file-name base is h
MatchesOfHash(occs, h) ==
    {m \in ImgPatterns \X DOMAIN occs :
        /\ PatternMatches(m[1], occs[m[2]])
        /\ LastSegmentHash(Captured(m[1], occs[m[2]])) = h}

\* first pass: the map imageOccurrenceCounts (every repetition of a match counts);
\* a hash no match captured reads as 0
imageOccurrenceCounts(occs) ==
    [h \in {LastSegmentHash(Captured(p, occs[i])) : p \in ImgPatterns, i \in DOMAIN occs} |->
        Cardinality(UNION {{<<m, r>> : r \in 1..occs[m[2]].n} : m \in MatchesOfHash(occs, h)})]

OccurrenceThreshold == 100

ExtractionLimit == 85

\* dimension.includes('30x30') || dimension.includes('75x75') ||
\* dimension.includes('_RS') || dimension.includes('200x150'), over DimStrings
ReservedDim(d) ==
    d \in {"30x30", "75x75", "200x150", "30x30_RS", "75x75_RS", "140x140_RS", "280x280_RS"}

\* the matches of one pattern, each with the URL the pattern captured
MatchesOfPattern(occs, p) ==
    LET hit == SelectSeq(occs, LAMBDA o : PatternMatches(p, o))
    IN [j \in DOMAIN hit |-> [hit[j] EXCEPT !.url = Captured(p, hit[j])]]

\* the matches of all patterns in the order the second pass meets them
RECURSIVE MatchList(_, _)
MatchList(occs, p) ==
    IF p > 7 THEN <<>>
    ELSE MatchesOfPattern(occs, p) \o MatchList(occs, p + 1)

\* a match that reaches seenImageHashes.add unless its hash was seen: it has no
\* non-content segment, has a dimension segment, no reserved dimension and an
\* occurrence count within the threshold
PassesFilters(occ, counts) ==
    /\ ~HasNonContentSegment(occ.url)
    /\ occ.url.dim # ""
    /\ ~ReservedDim(occ.url.dim)
    /\ counts[LastSegmentHash(occ.url)] <= OccurrenceThreshold

HeuristicImage(occ) ==
    Item(LastSegmentHash(occ.url),
         transformImageUrl(occ.url, "236x"), transformImageUrl(occ.url, "474x"),
         transformImageUrl(occ.url, "736x"), transformImageUrl(occ.url, "originals"), "")

\* second pass: every match that passes the filters with a hash not seen before is
\* pushed while images.length < 85; at 85 the loop over that pattern breaks, and
\* so does every later one at its first new hash
HeuristicPass(html, images) ==
    LET occs == Occurrences(html)
        counts == imageOccurrenceCounts(occs)
        matches == MatchList(occs, 1)
        reached == SubSeqAt(matches,
                       FirstIdx(matches, LAMBDA o : PassesFilters(o, counts),
                                LAMBDA o : LastSegmentHash(o.url)))
        room == IF Len(images) >= ExtractionLimit THEN 0 ELSE ExtractionLimit - Len(images)
        pushed == Take(reached, room)
    IN images \o [j \in DOMAIN pushed |-> HeuristicImage(pushed[j])]

(***************************************************************************)
(* extractImagesFromHtml: [threw, images].                                 *)
(*  The catch block of the __PWS_DATA__ parse (line 64) reads              *)
(*  scriptContent, a const declared inside the try block (line 47) and not *)
(*  in scope in the handler: evaluating it raises a ReferenceError out of  *)
(*  the handler, to the caller.                                            *)
(***************************************************************************)
ParseFailureHandlerThrows == TRUE

EmbeddedPins(html) ==
    IF html.blob = "valid" THEN extractAllPinsFromData(html.nodes) ELSE <<>>

WithLegacyFallback(html, images) ==
    IF Len(images) = 0
    THEN extractBoardPins(html.legacy)
    ELSE images

extractImagesFromHtml(html) ==
    IF html.blob = "malformed" /\ ParseFailureHandlerThrows
    THEN [threw |-> TRUE, images |-> <<>>]
    ELSE [threw |-> FALSE,
          images |-> HeuristicPass(html, WithLegacyFallback(html, EmbeddedPins(html)))]

(***************************************************************************)
(* Inputs: sample documents and feed responses                             *)
(***************************************************************************)
MaxPagesBound == 4

BigBoardSize == 73

PinId(i) == Nm("digits", 18, i)

Hash(i) == Nm("hex", 32, i)

ContentUrl(d, h) == Url(d, <<"aa", "bb", "cc">>, h, "jpg")

\* a well-formed pin whose image file is named by an md5-like hash
PinA == RawPin(PinId(1), ThumbOnly(ContentUrl("236x", Hash(1))), "a")

\* a well-formed pin whose image file name is its own numeric id
PinSelfNamed == RawPin(PinId(7), ThumbOnly(ContentUrl("236x", PinId(7))), "s")

NoBlobHtml(imgs) == [blob |-> "absent", nodes |-> <<>>, legacy |-> <<>>, imgs |-> imgs]

BlobHtml(nodes, imgs) == [blob |-> "valid", nodes |-> nodes, legacy |-> <<>>, imgs |-> imgs]

MalformedHtml(imgs) == [blob |-> "malformed", nodes |-> <<>>, legacy |-> <<>>, imgs |-> imgs]

EmptyHtml == NoBlobHtml(<<>>)

BigHtml ==
    NoBlobHtml([i \in 1..BigBoardSize |-> Occ(ContentUrl("236x", Hash(100 + i)), "src", 1)])

HtmlSamples ==
    { EmptyHtml,
      BlobHtml(<<PinA>>, <<>>),
      BlobHtml(<<PinSelfNamed>>, <<>>),
      MalformedHtml(<<Occ(ContentUrl("236x", Hash(2)), "src", 1)>>),
      NoBlobHtml(<<Occ(ContentUrl("474x", Hash(2)), "src", 2),
                   Occ(Url("75x75_RS", <<"avatars">>, Hash(3), "jpg"), "src", 1)>>),
      BigHtml }

FeedPin(i) == RawPin(PinId(i), ThumbOnly(ContentUrl("236x", Hash(i))), "f")

FeedPinNoThumb == RawPin(PinId(9), ThumbOnly(NoUrl), "n")

FeedBatches ==
    { <<>>, <<FeedPin(1)>>, <<FeedPin(2)>>, <<FeedPin(2), FeedPin(3)>>,
      <<FeedPin(3), FeedPin(3)>>, <<FeedPinNoThumb>>, <<FeedPin(1), FeedPin(4)>> }

NoToken == ""

Tokens == {"t1", "t2"}

\* where a response carries its next token: 0 nowhere, 1 resource.options.bookmarks[0],
\* 2 resource_response.bookmark, 3 resource_response.data.bookmark, 4 bookmark
TokenPaths == 0..4

FeedResponse(kind, results, tokenAt, token) ==
    [kind |-> kind, results |-> results, tokenAt |-> tokenAt,
     token |-> IF tokenAt = 0 THEN NoToken ELSE token]

\* kind: "ok" (2xx, JSON body), "notok" (non-success status), "throws" (fetch or json() rejects)
FeedResponses ==
    { FeedResponse(k, r, a, t) :
        k \in {"ok", "notok"}, r \in FeedBatches, a \in {0, 1, 2}, t \in {"t1"} }
    \cup { FeedResponse("ok", <<FeedPin(2)>>, 1, "t2"),
           FeedResponse("throws", <<>>, 0, NoToken) }

(***************************************************************************)
(* fetchBoardPins: one feed request; [pins, nextBookmark]                  *)
(***************************************************************************)
\* for (const pin of apiPins): skip a pin without id or images, push its image if any
FeedPinsToImages(apiPins) ==
    LET kept == SelectSeq(apiPins, LAMBDA q : q.id # NoName /\ extractImageFromPin(q) # <<>>)
    IN [j \in DOMAIN kept |-> extractImageFromPin(kept[j])[1]]

fetchBoardPins_IgnoresStatus(resp) ==
    IF resp.kind = "throws" THEN [pins |-> <<>>, nextBookmark |-> NoToken]
    ELSE [pins |-> FeedPinsToImages(resp.results),
          nextBookmark |-> IF resp.tokenAt = 1 THEN resp.token ELSE NoToken]

fetchBoardPins(resp) ==
    IF resp.kind # "ok" THEN [pins |-> <<>>, nextBookmark |-> NoToken]
    ELSE [pins |-> FeedPinsToImages(resp.results),
          nextBookmark |-> IF resp.tokenAt = 1 THEN resp.token ELSE NoToken]

\* the pins of a batch the merge loop adds: id not in seenIds, each id once, in order
NewPins(pins, seen) ==
    SubSeqAt(pins, FirstIdx(pins, LAMBDA q : q.id \notin seen, IdOf))

expectedTotalPins == 82

\* allImages.length >= expectedTotalPins * 0.9
ReachedExpectedTotal(n) == 10 * n >= 9 * expectedTotalPins

\* a loop that keeps sending the first token it got
NextRequestToken_KeepsFirst(current, returned) == IF current = NoToken THEN returned ELSE current

\* bookmark = nextBookmark, sent by the next fetchBoardPins as options.bookmarks[0]
NextRequestToken(current, returned) == returned

LoopContinues_OffByOne(loaded, limit) == loaded <= limit

\* while (pagesLoaded < maxPages)
LoopContinues(loaded, limit) == loaded < limit

(***************************************************************************)
(* State                                                                   *)
(*  scrape route and scrapePinterestBoard: pc, boardUrl, maxPages, html,   *)
(*  docStatus, allImages, seenIds, bookmark, pagesLoaded, newPinsAdded,    *)
(*  nextBookmark, stop, httpStatus; history: pageLoads, feedRequests,      *)
(*  zeroSeen, requestAfterZero, feedFailed, imagesAtFailure,               *)
(*  requestsAtFailure, tokenCarried (the continuation token the latest     *)
(*  feed response carried, at whatever path).                              *)
(***************************************************************************)
VARIABLES pc, boardUrl, maxPages, html, docStatus, allImages, seenIds, bookmark,
          pagesLoaded, newPinsAdded, nextBookmark, stop, httpStatus,
          pageLoads, feedRequests, zeroSeen, requestAfterZero, feedFailed,
          imagesAtFailure, requestsAtFailure, tokenCarried

(***************************************************************************)
(*  playwright-scrape route: phase (position in the route), pwBoardUrl,    *)
(*  networkPins (the Map, as the list of its values in insertion order),   *)
(*  harvestedUrls, finalHtml, htmlCaptured (finalHtml is non-empty),       *)
(*  playwrightSuccess, scrollCount, lastHeight, browserOpen, the in-page   *)
(*  pagination loop (pgRequests, pgInFlight, pgBookmark, pgCollected),     *)
(*  finalImages, pwHttpStatus; environment: pageHeight; history:           *)
(*  phaseLog, failures, networkAtFusion.                                   *)
(***************************************************************************)
VARIABLES phase, pwBoardUrl, networkPins, harvestedUrls, finalHtml, htmlCaptured,
          playwrightSuccess, scrollCount, lastHeight, browserOpen,
          pgRequests, pgInFlight, pgBookmark, pgCollected,
          finalImages, pwHttpStatus, pageHeight, phaseLog, failures, networkAtFusion

scrapeVars == <<pc, boardUrl, maxPages, html, docStatus, allImages, seenIds, bookmark,
                pagesLoaded, newPinsAdded, nextBookmark, stop, httpStatus,
                pageLoads, feedRequests, zeroSeen, requestAfterZero, feedFailed,
                imagesAtFailure, requestsAtFailure, tokenCarried>>

(***************************************************************************)
(*  page component: the download of the selection (dlPc, selection, dl,    *)
(*  zipFiles, downloading, uiError, uiSuccess) and what postJson handed    *)
(*  to handleScrape (received).  selection is selectedImagesList as the    *)
(*  last click on download computed it: one flag per selected image, TRUE  *)
(*  when the image has a URL of the chosen size.  dlPc is the position of  *)
(*  the last call of downloadSelected and dlAgain tells whether that call  *)
(*  followed an earlier one.                                               *)
(***************************************************************************)
VARIABLES dlPc, dlAgain, selection, dl, zipFiles, downloading, uiError, uiSuccess, received

(***************************************************************************)
(*  the state of the page: the images shown (pageImages is the state       *)
(*  `images`), the ids selected and the size chosen for the download.      *)
(***************************************************************************)
VARIABLES pageImages, selectedImages, imageSize

pageVars == <<pageImages, selectedImages, imageSize>>

(***************************************************************************)
(*  handleScrape: its position (hsPc), the loading flag and the requests   *)
(*  it made so far with what postJson returned for each (hsLog).           *)
(***************************************************************************)
VARIABLES hsPc, loading, hsLog

hsVars == <<hsPc, loading, hsLog, pageVars>>

clientVars ==
    <<dlPc, dlAgain, selection, dl, zipFiles, downloading, uiError, uiSuccess, received, hsVars>>

(***************************************************************************)
(*  the pure functions applied on their own: which step was taken (fnPc),  *)
(*  the arguments (fnIn) and the values returned (fnOut).                  *)
(***************************************************************************)
VARIABLES fnPc, fnIn, fnOut

fnVars == <<fnPc, fnIn, fnOut>>

pwVars == <<phase, pwBoardUrl, networkPins, harvestedUrls, finalHtml, htmlCaptured,
            playwrightSuccess, scrollCount, lastHeight, browserOpen,
            pgRequests, pgInFlight, pgBookmark, pgCollected,
            finalImages, pwHttpStatus, pageHeight, phaseLog, failures, networkAtFusion>>

vars == <<scrapeVars, pwVars, clientVars, fnVars>>

\* "board": a pinterest.com URL with owner and slug; "noparts": a pinterest.com URL
\* parseBoardUrl does not match; "pinit": a pin.it URL with two path segments;
\* "invalid": neither pinterest.com nor pin.it in it
BoardUrls == {"board", "noparts", "pinit", "invalid"}

\* boardUrl.includes('pinterest.com')
IncludesPinterestCom(u) == u \in {"board", "noparts"}

\* /pinterest\.com\/([^/]+)\/([^/]+)\/?/ or /pin\.it\/([^/]+)\/([^/]+)\/?/ matches
parseBoardUrl(u) == u \in {"board", "pinit"}

ScrapeInit ==
    /\ html = EmptyHtml
    /\ docStatus = "none"
    /\ allImages = <<>>
    /\ seenIds = {}
    /\ bookmark = NoToken
    /\ pagesLoaded = 0
    /\ newPinsAdded = 0
    /\ nextBookmark = NoToken
    /\ stop = "none"
    /\ httpStatus = 0
    /\ pageLoads = 0
    /\ feedRequests = 0
    /\ zeroSeen = FALSE
    /\ requestAfterZero = FALSE
    /\ feedFailed = FALSE
    /\ imagesAtFailure = <<>>
    /\ requestsAtFailure = 0
    /\ tokenCarried = NoToken

NoResponse == [kind |-> "none", ok |-> FALSE, images |-> <<>>, error |-> ""]

\* e.message of the rejection of an aborted fetch
AbortMessage == "This operation was aborted"

\* the error text of the body a route sends with a non-success status
RouteErrorText == "error of the route"

NoMsg == [kind |-> "none", downloaded |-> 0, failed |-> 0]

ImageSizes == {"medium", "large", "original"}

\* useState([]), useState(new Set()), useState('large')
PageEmpty ==
    /\ pageImages = <<>>
    /\ selectedImages = {}
    /\ imageSize = "large"

HsIdle ==
    /\ hsPc = "idle"
    /\ loading = FALSE
    /\ hsLog = <<>>

\* the page component as mounted: nothing selected, no download, no request
ClientInit ==
    /\ dlPc = "idle"
    /\ dlAgain = FALSE
    /\ selection = <<>>
    /\ dl = <<>>
    /\ zipFiles = {}
    /\ downloading = FALSE
    /\ uiError = ""
    /\ uiSuccess = NoMsg
    /\ received = NoResponse
    /\ HsIdle
    /\ PageEmpty

NoJob == [job |-> "none"]

FnIdle ==
    /\ fnPc = "idle"
    /\ fnIn = NoJob
    /\ fnOut = NoJob

PwInit ==
    /\ networkPins = <<>>
    /\ harvestedUrls = <<>>
    /\ finalHtml = EmptyHtml
    /\ htmlCaptured = FALSE
    /\ playwrightSuccess = FALSE
    /\ scrollCount = 0
    /\ lastHeight = 0
    /\ browserOpen = FALSE
    /\ pgRequests = 0
    /\ pgInFlight = FALSE
    /\ pgBookmark = NoToken
    /\ pgCollected = <<>>
    /\ finalImages = <<>>
    /\ pwHttpStatus = 0
    /\ pageHeight = 0
    /\ phaseLog = <<>>
    /\ failures = {}
    /\ networkAtFusion = <<>>

\* the scrape route is invoked; "idle": the playwright-scrape route is not
InitScrape ==
    /\ pc = "start"
    /\ phase = "idle"
    /\ ScrapeInit
    /\ boardUrl \in BoardUrls
    /\ maxPages \in 0..MaxPagesBound
    /\ PwInit
    /\ pwBoardUrl = "board"
    /\ ClientInit
    /\ FnIdle

loopVars == <<allImages, seenIds, bookmark, pagesLoaded, newPinsAdded, nextBookmark>>

histVars == <<zeroSeen, requestAfterZero, feedFailed, imagesAtFailure, requestsAtFailure,
              tokenCarried>>

\* POST /api/scrape: validate the URL, then scrapePinterestBoard issues the document fetch
ScrapeStart ==
    /\ UNCHANGED <<clientVars, fnVars>>
    /\ UNCHANGED pwVars
    /\ pc = "start"
    /\ IF ~IncludesPinterestCom(boardUrl)
       THEN /\ pc' = "responded"
            /\ httpStatus' = 400
            /\ UNCHANGED pageLoads
       ELSE /\ pc' = "fetchingDoc"
            /\ pageLoads' = pageLoads + 1
            /\ UNCHANGED httpStatus
    /\ UNCHANGED <<boardUrl, maxPages, html, docStatus, stop, feedRequests>>
    /\ UNCHANGED loopVars
    /\ UNCHANGED histVars

\* the document fetch rejects: scrapePinterestBoard rejects
DocFetchThrows ==
    /\ UNCHANGED <<clientVars, fnVars>>
    /\ UNCHANGED pwVars
    /\ pc = "fetchingDoc"
    /\ pc' = "threw"
    /\ docStatus' = "throws"
    /\ UNCHANGED <<boardUrl, maxPages, html, stop, httpStatus, pageLoads, feedRequests>>
    /\ UNCHANGED loopVars
    /\ UNCHANGED histVars

\* if (!response.ok) throw new Error(`Failed to fetch board: ...`)
DocFetchNotOk ==
    /\ UNCHANGED <<clientVars, fnVars>>
    /\ UNCHANGED pwVars
    /\ pc = "fetchingDoc"
    /\ pc' = "threw"
    /\ docStatus' = "notok"
    /\ UNCHANGED <<boardUrl, maxPages, html, stop, httpStatus, pageLoads, feedRequests>>
    /\ UNCHANGED loopVars
    /\ UNCHANGED histVars

\* response.ok: extract the initial pins, parse the URL, set up the loop
DocFetchOk ==
    /\ UNCHANGED <<clientVars, fnVars>>
    /\ UNCHANGED pwVars
    /\ pc = "fetchingDoc"
    /\ \E h \in HtmlSamples :
        LET r == extractImagesFromHtml(h) IN
        /\ html' = h
        /\ docStatus' = "ok"
        /\ IF r.threw
           THEN /\ pc' = "threw"
                /\ UNCHANGED <<allImages, seenIds, pagesLoaded, stop>>
           ELSE /\ allImages' = r.images
                /\ IF parseBoardUrl(boardUrl)
                   THEN /\ pc' = "loop"
                        /\ pagesLoaded' = 1
                        /\ seenIds' = Ids(r.images)
                        /\ UNCHANGED stop
                   ELSE /\ pc' = "returned"
                        /\ stop' = "noparts"
                        /\ UNCHANGED <<seenIds, pagesLoaded>>
    /\ UNCHANGED <<boardUrl, maxPages, httpStatus, pageLoads, feedRequests,
                   bookmark, newPinsAdded, nextBookmark>>
    /\ UNCHANGED histVars

\* the loop condition holds: fetchBoardPins issues the next feed request
FeedRequest ==
    /\ UNCHANGED <<clientVars, fnVars>>
    /\ UNCHANGED pwVars
    /\ pc = "loop"
    /\ LoopContinues(pagesLoaded, maxPages)
    /\ pc' = "fetchingFeed"
    /\ feedRequests' = feedRequests + 1
    /\ pageLoads' = pageLoads + 1
    /\ requestAfterZero' = (requestAfterZero \/ zeroSeen)
    /\ UNCHANGED <<boardUrl, maxPages, html, docStatus, stop, httpStatus>>
    /\ UNCHANGED loopVars
    /\ UNCHANGED <<zeroSeen, feedFailed, imagesAtFailure, requestsAtFailure, tokenCarried>>

\* the loop condition fails
LoopExit ==
    /\ UNCHANGED <<clientVars, fnVars>>
    /\ UNCHANGED pwVars
    /\ pc = "loop"
    /\ ~LoopContinues(pagesLoaded, maxPages)
    /\ pc' = "returned"
    /\ stop' = "maxPages"
    /\ UNCHANGED <<boardUrl, maxPages, html, docStatus, httpStatus, pageLoads, feedRequests>>
    /\ UNCHANGED loopVars
    /\ UNCHANGED histVars

\* the feed response arrives: merge the new pins, then break or go round
FeedResponseArrives ==
    /\ UNCHANGED <<clientVars, fnVars>>
    /\ UNCHANGED pwVars
    /\ pc = "fetchingFeed"
    /\ \E resp \in FeedResponses :
        LET r == fetchBoardPins(resp)
            fresh == NewPins(r.pins, seenIds)
            merged == allImages \o fresh
        IN
        /\ allImages' = merged
        /\ seenIds' = seenIds \cup Ids(fresh)
        /\ newPinsAdded' = Len(fresh)
        /\ nextBookmark' = r.nextBookmark
        /\ zeroSeen' = (zeroSeen \/ Len(fresh) = 0)
        /\ tokenCarried' = IF resp.kind = "ok" THEN resp.token ELSE NoToken
        /\ IF resp.kind # "ok" /\ ~feedFailed
           THEN /\ feedFailed' = TRUE
                /\ imagesAtFailure' = allImages
                /\ requestsAtFailure' = feedRequests
           ELSE UNCHANGED <<feedFailed, imagesAtFailure, requestsAtFailure>>
        /\ IF Len(fresh) = 0 \/ r.nextBookmark = NoToken
           THEN /\ pc' = "returned"
                /\ stop' = IF Len(fresh) = 0 THEN "zeroNew" ELSE "noToken"
                /\ UNCHANGED <<bookmark, pagesLoaded>>
           ELSE /\ bookmark' = NextRequestToken(bookmark, r.nextBookmark)
                /\ pagesLoaded' = pagesLoaded + 1
                /\ IF ReachedExpectedTotal(Len(merged))
                   THEN pc' = "returned" /\ stop' = "target"
                   ELSE pc' = "loop" /\ UNCHANGED stop
    /\ UNCHANGED <<boardUrl, maxPages, html, docStatus, httpStatus, pageLoads,
                   feedRequests, requestAfterZero>>

\* the route answers: 404 for an empty list, 200 otherwise, 500 when the scrape rejected
Respond ==
    /\ UNCHANGED <<clientVars, fnVars>>
    /\ UNCHANGED pwVars
    /\ pc \in {"returned", "threw"}
    /\ pc' = "responded"
    /\ httpStatus' = IF pc = "threw" THEN 500
                     ELSE IF Len(allImages) = 0 THEN 404 ELSE 200
    /\ UNCHANGED <<boardUrl, maxPages, html, docStatus, stop, pageLoads, feedRequests>>
    /\ UNCHANGED loopVars
    /\ UNCHANGED histVars

NextScrape ==
    \/ ScrapeStart
    \/ DocFetchThrows
    \/ DocFetchNotOk
    \/ DocFetchOk
    \/ FeedRequest
    \/ LoopExit
    \/ FeedResponseArrives
    \/ Respond

SpecScrape == InitScrape /\ [][NextScrape]_vars

(***************************************************************************)
(* Properties of scrapePinterestBoard (SpecScrape)                         *)
(***************************************************************************)
ScrapeReturned == pc = "returned" \/ (pc = "responded" /\ httpStatus \in {200, 404})

\* C1 as stated: once a feed response added no new id no further feed request is
\* issued, and the page loads (document plus feed requests) never exceed maxPages.
C1_PageLoadsWithinMaxPages ==
    /\ ~requestAfterZero
    /\ pageLoads <= maxPages

\* C1 amended: once a feed response added no new id no further feed request is
\* issued; the document is always loaded, and the page loads never exceed
\* max(maxPages, 1), i.e. at most max(maxPages - 1, 0) feed requests are issued.
C1_PaginationTermination ==
    /\ ~requestAfterZero
    /\ pageLoads <= (IF maxPages < 1 THEN 1 ELSE maxPages)
    /\ feedRequests <= (IF maxPages < 1 THEN 0 ELSE maxPages - 1)

\* a run that used the whole page budget and whose last feed page added nothing
C1_Witness ==
    /\ pc = "returned"
    /\ zeroSeen
    /\ feedRequests >= 2
    /\ pageLoads = maxPages

\* C2: the pagination loop stops only because the last batch added nothing, no next
\* token was returned, or the page bound was reached.
C2_StopsOnlyForThreeReasons ==
    (ScrapeReturned /\ feedRequests > 0) =>
        \/ newPinsAdded = 0
        \/ nextBookmark = NoToken
        \/ ~LoopContinues(pagesLoaded, maxPages)

\* C3: the list scrapePinterestBoard returns holds no two items with the same id.
C3_NoDuplicateIds == ScrapeReturned => NoDuplicateIds(allImages)

\* C7: after a feed request that returned a non-success status or threw, no further
\* feed request is issued and the scrape returns, without raising, exactly the items
\* accumulated up to that point.
C7_FeedFailureEndsPagination ==
    feedFailed =>
        /\ ScrapeReturned
        /\ feedRequests = requestsAtFailure
        /\ allImages = imagesAtFailure

\* a second feed request fails after the document and the first page gave items
C7_Witness ==
    /\ feedFailed
    /\ pc = "returned"
    /\ feedRequests >= 2
    /\ Len(allImages) >= 2

\* C8: a document whose __PWS_DATA__ blob is not valid JSON does not make
\* extractImagesFromHtml raise to its caller.
C8_MalformedBlobDoesNotRaise ==
    (docStatus = "ok" /\ html.blob = "malformed") => pc # "threw"

\* C9: a non-success status of the initial document fetch does not turn the
\* invocation into a failure while feed pagination is untried.
C9_DocumentFailureDegrades ==
    (docStatus = "notok" /\ feedRequests = 0) => (pc # "threw" /\ httpStatus # 500)

(***************************************************************************)
(* playwright-scrape route: fusion of network pins, DOM URLs and markup    *)
(***************************************************************************)
DomAllowedDims == {"236x", "474x", "564x", "736x", "originals"}

KeepAllowedDims == {"170x"} \cup DomAllowedDims

MediaExts == {"gif", "mp4", "webm"}

shouldKeepUrl(u) ==
    /\ u # NoUrl
    /\ u.host = "i.pinimg.com"
    /\ ~HasNonContentSegment(u)
    /\ u.ext \notin MediaExts
    /\ getDimensionFromUrl(u) \in KeepAllowedDims
    /\ getHashFromUrl(u) # NoName
    /\ isValidPinHash(getHashFromUrl(u))

\* variant: networkPins.set without the has() test, a later value replaces the first
MergeIntoNetwork_Overwrites(np, rawPins) ==
    LET kept == SelectSeq(rawPins, LAMBDA q : buildImageFromPin(q) # <<>>)
        imgs == [j \in DOMAIN kept |-> buildImageFromPin(kept[j])[1]]
        latest(id) == imgs[CHOOSE j \in DOMAIN imgs :
                              imgs[j].id = id /\ \A k \in DOMAIN imgs : k > j => imgs[k].id # id]
    IN [i \in DOMAIN np |-> IF np[i].id \in Ids(imgs) THEN latest(np[i].id) ELSE np[i]]
       \o NewPins(imgs, Ids(np))

\* for (const pin of ...) { const img = buildImageFromPin(pin);
\*   if (img && !networkPins.has(img.id)) networkPins.set(img.id, img); }
MergeIntoNetwork(np, rawPins) ==
    LET kept == SelectSeq(rawPins, LAMBDA q : buildImageFromPin(q) # <<>>)
        imgs == [j \in DOMAIN kept |-> buildImageFromPin(kept[j])[1]]
    IN np \o NewPins(imgs, Ids(np))

\* networkHashes: getHashFromUrl(pin.thumbnail || pin.url) of every network pin
NetworkHashes(np) ==
    {getHashFromUrl(OrUrl(np[i].thumbnail, np[i].url)) : i \in DOMAIN np} \ {NoName}

\* networkPinIds: String(pin.id) of every network pin
NetworkPinIds(np) == Ids(np) \ {NoName}

\* Map.set: an existing key keeps its position and gets the new value
MapSet(m, item) ==
    IF item.id \in Ids(m)
    THEN [i \in DOMAIN m |-> IF m[i].id = item.id THEN item ELSE m[i]]
    ELSE Append(m, item)

DomAccepts_NoNetworkCheck(id, seen, networkHashes) ==
    id # NoName /\ isValidPinHash(id) /\ id \notin seen

\* if (!id || !isValidPinHash(id) || seen.has(id) || !networkHashes.has(id)) continue
DomAccepts(id, seen, networkHashes) ==
    id # NoName /\ isValidPinHash(id) /\ id \notin seen /\ id \in networkHashes

DomItem(raw) ==
    LET thumb == transformImageUrl(raw, "236x") IN
    Item(getHashFromUrl(thumb), thumb, transformImageUrl(raw, "474x"),
         transformImageUrl(raw, "736x"), transformImageUrl(raw, "originals"), "")

\* for (const raw of harvestedUrls) of the DOM merge
RECURSIVE MergeDom(_, _, _, _)
MergeDom(m, seen, urls, networkHashes) ==
    IF urls = <<>> THEN m
    ELSE LET raw == Head(urls)
             id == getHashFromUrl(transformImageUrl(raw, "236x"))
         IN IF /\ shouldKeepUrl(raw)
               /\ getDimensionFromUrl(raw) \in DomAllowedDims
               /\ DomAccepts(id, seen, networkHashes)
            THEN MergeDom(MapSet(m, DomItem(raw)), seen \cup {id}, Tail(urls), networkHashes)
            ELSE MergeDom(m, seen, Tail(urls), networkHashes)

CandidateUrl(p) ==
    OrUrl(p.thumbnail, OrUrl(p.url, OrUrl(p.medium, OrUrl(p.large, p.original))))

SupplementAdds_Always(key, m) == TRUE

\* if (!imagesMap.has(key))
SupplementAdds(key, m) == key \notin Ids(m)

Normalized(p, key) ==
    LET c == CandidateUrl(p) IN
    [p EXCEPT !.id = key,
              !.thumbnail = OrUrl(p.thumbnail, transformImageUrl(c, "236x")),
              !.medium = OrUrl(p.medium, transformImageUrl(c, "474x")),
              !.large = OrUrl(p.large, transformImageUrl(c, "736x")),
              !.original = OrUrl(p.original, transformImageUrl(c, "originals"))]

\* for (const p of htmlPins) of the HTML supplement
RECURSIVE SupplementHtml(_, _, _, _)
SupplementHtml(m, htmlPins, networkHashes, networkPinIds) ==
    IF htmlPins = <<>> THEN m
    ELSE LET p == Head(htmlPins)
             c == CandidateUrl(p)
             candidateHash == IF c # NoUrl THEN getHashFromUrl(c) ELSE NoName
             matchesNetworkHash == candidateHash # NoName /\ candidateHash \in networkHashes
             matchesNetworkId == p.id # NoName /\ p.id \in networkPinIds
             key == IF p.id # NoName THEN p.id ELSE candidateHash
         IN IF (matchesNetworkHash \/ matchesNetworkId) /\ key # NoName /\ SupplementAdds(key, m)
            THEN SupplementHtml(MapSet(m, Normalized(p, key)), Tail(htmlPins),
                                networkHashes, networkPinIds)
            ELSE SupplementHtml(m, Tail(htmlPins), networkHashes, networkPinIds)

\* the HTML supplement runs only with a non-empty network hash or id set
SupplementRuns(htmlPins, networkHashes, networkPinIds) ==
    Len(htmlPins) > 0 /\ (networkHashes # {} \/ networkPinIds # {})

\* imagesMap after the three stages; finalImages = Array.from(imagesMap.values())
Fusion(np, urls, htmlPins) ==
    LET networkHashes == NetworkHashes(np)
        networkPinIds == NetworkPinIds(np)
        afterDom == IF Len(urls) > 0 THEN MergeDom(np, Ids(np), urls, networkHashes) ELSE np
    IN IF SupplementRuns(htmlPins, networkHashes, networkPinIds)
       THEN SupplementHtml(afterDom, htmlPins, networkHashes, networkPinIds)
       ELSE afterDom

(***************************************************************************)
(* playwright-scrape route: inputs                                         *)
(***************************************************************************)
\* the page stops growing at this height
MaxHeight == 2

\* the feed serves at most this many pages with a continuation token
MaxFeedPages == 2

maxScrolls == 120

InPageMaxRequests == 30

\* the same pin as PinA as the document's blob carries it (another title)
PinAInHtml == RawPin(PinId(1), ThumbOnly(ContentUrl("236x", Hash(1))), "h")

\* the record of PinA as a later response delivers it: same id, another title
PinALater == RawPin(PinId(1), ThumbOnly(ContentUrl("236x", Hash(1))), "later")

PwFeedBatches ==
    { <<>>, <<PinA>>, <<PinSelfNamed>>, <<PinA, FeedPin(2)>>, <<FeedPinNoThumb>>, <<PinALater>> }

PgResponses(sent) ==
    { FeedResponse("ok", r, a, "t1") :
        r \in PwFeedBatches, a \in IF sent < MaxFeedPages THEN {0, 1, 3} ELSE {0} }
    \cup { FeedResponse("notok", <<>>, 0, NoToken), FeedResponse("throws", <<>>, 0, NoToken) }

\* data.resource.options.bookmarks[0] || data.resource_response.bookmark ||
\* data.resource_response.data.bookmark || data.bookmark
InPageBookmark(resp) == IF resp.tokenAt \in 1..4 THEN resp.token ELSE NoToken

DomSamples ==
    { <<>>,
      <<ContentUrl("736x", Hash(1))>>,
      <<ContentUrl("736x", PinId(7)), ContentUrl("236x", Hash(5))>>,
      <<Url("170x", <<"aa", "bb", "cc">>, Hash(1), "jpg"), Url("75x75_RS", <<"avatars">>, Hash(3), "jpg"),
        ContentUrl("474x", Hash(1)), ContentUrl("236x", Hash(1))>> }

PwHtmlSamples ==
    { EmptyHtml,
      BlobHtml(<<PinAInHtml>>, <<>>),
      NoBlobHtml(<<Occ(ContentUrl("236x", Hash(5)), "src", 1),
                   Occ(ContentUrl("474x", Hash(2)), "src", 2)>>),
      MalformedHtml(<<Occ(ContentUrl("236x", Hash(2)), "src", 1)>>) }

(***************************************************************************)
(* playwright-scrape route: positions and phases                           *)
(***************************************************************************)
\* the phase of the harvester state machine a position of the route belongs to
SpecPhase(pos) ==
    CASE pos = "launching" -> "Launching"
      [] pos = "navigating" -> "Navigating"
      [] pos = "scrolling" -> "Scrolling"
      [] pos \in {"paginating", "sections"} -> "Paginating"
      [] pos = "detailFilling" -> "DetailFilling"
      [] pos \in {"harvesting", "capturing", "closing"} -> "Harvesting"
      [] OTHER -> "Done"

\* where control goes when the step at pos rejects: Steps 3, 3b and 3c have their own
\* try/catch and fall through to the next step, everything else reaches the outer catch
AfterFailure(pos) ==
    CASE pos = "paginating" -> "sections"
      [] pos = "sections" -> "detailFilling"
      [] pos = "detailFilling" -> "harvesting"
      [] OTHER -> "done"

Entered(log, from, to) ==
    IF SpecPhase(to) = SpecPhase(from) THEN log ELSE Append(log, SpecPhase(to))

HarvesterPositions ==
    {"launching", "navigating", "scrolling", "paginating", "sections", "detailFilling",
     "harvesting", "capturing", "closing"}

pgVars == <<pgRequests, pgInFlight, pgBookmark, pgCollected>>

scrollVars == <<scrollCount, lastHeight, pageHeight>>

harvestVars == <<harvestedUrls, finalHtml, htmlCaptured>>

outVars == <<finalImages, pwHttpStatus, networkAtFusion>>

PgReset ==
    /\ pgRequests' = 0
    /\ pgInFlight' = FALSE
    /\ pgBookmark' = NoToken
    /\ pgCollected' = <<>>

GoTo(pos) ==
    /\ phase' = pos
    /\ phaseLog' = Entered(phaseLog, phase, pos)

\* the playwright-scrape route is invoked; "idle": the scrape route is not
InitPw ==
    /\ phase = "start"
    /\ pc = "idle"
    /\ ScrapeInit
    /\ boardUrl = "board"
    /\ maxPages = 0
    /\ PwInit
    /\ pwBoardUrl \in BoardUrls
    /\ ClientInit
    /\ FnIdle

(***************************************************************************)
(* playwright-scrape route: actions                                        *)
(***************************************************************************)
\* POST: 400 unless the URL contains pinterest.com, else start the harvester
PwStart ==
    /\ UNCHANGED <<clientVars, fnVars>>
    /\ phase = "start"
    /\ IF ~IncludesPinterestCom(pwBoardUrl)
       THEN /\ phase' = "responded"
            /\ pwHttpStatus' = 400
       ELSE /\ phase' = "launching"
            /\ UNCHANGED pwHttpStatus
    /\ UNCHANGED <<pwBoardUrl, networkPins, playwrightSuccess, browserOpen, phaseLog, failures,
                   finalImages, networkAtFusion>>
    /\ UNCHANGED <<pgVars, scrollVars, harvestVars, scrapeVars>>

\* import, chromium.launch, newContext, newPage, page.on('response', ...)
LaunchOk ==
    /\ UNCHANGED <<clientVars, fnVars>>
    /\ phase = "launching"
    /\ GoTo("navigating")
    /\ browserOpen' = TRUE
    /\ UNCHANGED <<pwBoardUrl, networkPins, playwrightSuccess, failures>>
    /\ UNCHANGED <<pgVars, scrollVars, harvestVars, outVars, scrapeVars>>

\* page.goto resolves; the overlay dismissal swallows its own errors
NavigateOk ==
    /\ UNCHANGED <<clientVars, fnVars>>
    /\ phase = "navigating"
    /\ GoTo("scrolling")
    /\ pageHeight' \in 1..MaxHeight
    /\ UNCHANGED <<pwBoardUrl, networkPins, playwrightSuccess, browserOpen, failures>>
    /\ UNCHANGED <<scrollCount, lastHeight>>
    /\ UNCHANGED <<pgVars, harvestVars, outVars, scrapeVars>>

\* the response callback, registered once the page exists: a BoardFeedResource response
\* seen by the page
InterceptFeed ==
    /\ UNCHANGED <<clientVars, fnVars>>
    /\ browserOpen
    /\ "Launching" \notin failures
    /\ phase \in (HarvesterPositions \ {"launching"}) \cup {"done"}
    /\ \E batch \in PwFeedBatches : networkPins' = MergeIntoNetwork(networkPins, batch)
    /\ UNCHANGED <<phase, pwBoardUrl, playwrightSuccess, browserOpen, phaseLog, failures>>
    /\ UNCHANGED <<pgVars, scrollVars, harvestVars, outVars, scrapeVars>>

\* a loop that breaks on the first unchanged height, without the second look
StopsScrolling_NoRecheck(currentHeight, recheck, last) == currentHeight = last

\* if (currentHeight === lastHeight) { ... if (recheck === lastHeight) break; }
StopsScrolling(currentHeight, recheck, last) == currentHeight = last /\ recheck = last

\* one iteration of for (let i = 0; i < maxScrolls; i++); i = scrollCount at the loop head.
\* On leaving the loop lastHeight goes out of scope and the page height is never read again.
ScrollStep ==
    /\ UNCHANGED <<clientVars, fnVars>>
    /\ phase = "scrolling"
    /\ IF ~(scrollCount < maxScrolls)
       THEN /\ GoTo("paginating")
            /\ lastHeight' = 0
            /\ pageHeight' = 0
            /\ UNCHANGED scrollCount
       ELSE \E currentHeight \in pageHeight..MaxHeight :
              \E recheck \in IF currentHeight = lastHeight THEN currentHeight..MaxHeight
                             ELSE {currentHeight} :
                IF StopsScrolling(currentHeight, recheck, lastHeight)
                THEN /\ GoTo("paginating")
                     /\ lastHeight' = 0
                     /\ pageHeight' = 0
                     /\ UNCHANGED scrollCount
                ELSE /\ pageHeight' = recheck
                     /\ lastHeight' = currentHeight
                     /\ scrollCount' = scrollCount + 1
                     /\ UNCHANGED <<phase, phaseLog>>
    /\ UNCHANGED <<pwBoardUrl, networkPins, playwrightSuccess, browserOpen, failures>>
    /\ UNCHANGED <<pgVars, harvestVars, outVars, scrapeVars>>

\* if (parts?.username && parts?.slug) fails: Steps 3, 3b and 3c do nothing
PartsMissing ==
    /\ UNCHANGED <<clientVars, fnVars>>
    /\ phase \in {"paginating", "sections", "detailFilling"}
    /\ ~parseBoardUrl(pwBoardUrl)
    /\ GoTo(AfterFailure(phase))
    /\ UNCHANGED <<pwBoardUrl, networkPins, playwrightSuccess, browserOpen, failures>>
    /\ UNCHANGED <<pgVars, scrollVars, harvestVars, outVars, scrapeVars>>

MayIssue_WithoutAwait(inFlight) == TRUE

\* const resp = await fetch(url, ...): the loop goes on only when the response is there
MayIssue(inFlight) == ~inFlight

\* Step 3, in the page: the next fetch of the feed
PaginateRequest ==
    /\ UNCHANGED <<clientVars, fnVars>>
    /\ phase = "paginating"
    /\ parseBoardUrl(pwBoardUrl)
    /\ MayIssue(pgInFlight)
    /\ pgInFlight' = TRUE
    /\ pgRequests' = pgRequests + 1
    /\ UNCHANGED <<phase, pwBoardUrl, networkPins, playwrightSuccess, browserOpen, phaseLog,
                   failures, pgBookmark, pgCollected>>
    /\ UNCHANGED <<scrollVars, harvestVars, outVars, scrapeVars>>

\* Step 3: the response; on the last one page.evaluate returns and the pins are merged
PaginateResponse ==
    /\ UNCHANGED <<clientVars, fnVars>>
    /\ phase = "paginating"
    /\ pgInFlight
    /\ \E resp \in PgResponses(pgRequests) :
        LET collected == IF resp.kind = "ok" THEN pgCollected \o resp.results ELSE pgCollected
            next == IF resp.kind = "ok" THEN InPageBookmark(resp) ELSE NoToken
        IN
        IF resp.kind = "throws"
        THEN /\ failures' = failures \cup {SpecPhase(phase)}
             /\ GoTo(AfterFailure(phase))
             /\ PgReset
             /\ UNCHANGED networkPins
        ELSE IF next = NoToken \/ ~(pgRequests < InPageMaxRequests)
        THEN /\ networkPins' = MergeIntoNetwork(networkPins, collected)
             /\ GoTo("sections")
             /\ PgReset
             /\ UNCHANGED failures
        ELSE /\ pgCollected' = collected
             /\ pgBookmark' = next
             /\ pgInFlight' = FALSE
             /\ UNCHANGED <<phase, phaseLog, failures, networkPins, pgRequests>>
    /\ UNCHANGED <<pwBoardUrl, playwrightSuccess, browserOpen>>
    /\ UNCHANGED <<scrollVars, harvestVars, outVars, scrapeVars>>

\* Step 3b (sections) and Step 3c (details): page.evaluate returns the collected pins
SectionsOrDetailsDone ==
    /\ UNCHANGED <<clientVars, fnVars>>
    /\ phase \in {"sections", "detailFilling"}
    /\ parseBoardUrl(pwBoardUrl)
    /\ \E batch \in {<<>>, <<FeedPin(2)>>} : networkPins' = MergeIntoNetwork(networkPins, batch)
    /\ GoTo(AfterFailure(phase))
    /\ UNCHANGED <<pwBoardUrl, playwrightSuccess, browserOpen, failures>>
    /\ UNCHANGED <<pgVars, scrollVars, harvestVars, outVars, scrapeVars>>

\* Step 4: the URLs of the img elements
HarvestOk ==
    /\ UNCHANGED <<clientVars, fnVars>>
    /\ phase = "harvesting"
    /\ harvestedUrls' \in DomSamples
    /\ phase' = "capturing"
    /\ UNCHANGED <<pwBoardUrl, networkPins, playwrightSuccess, browserOpen, phaseLog, failures,
                   finalHtml, htmlCaptured>>
    /\ UNCHANGED <<pgVars, scrollVars, outVars, scrapeVars>>

\* finalHtml = await page.content()
CaptureOk ==
    /\ UNCHANGED <<clientVars, fnVars>>
    /\ phase = "capturing"
    /\ finalHtml' \in PwHtmlSamples
    /\ htmlCaptured' = TRUE
    /\ phase' = "closing"
    /\ UNCHANGED <<pwBoardUrl, networkPins, playwrightSuccess, browserOpen, phaseLog, failures,
                   harvestedUrls>>
    /\ UNCHANGED <<pgVars, scrollVars, outVars, scrapeVars>>

\* await browser.close(); playwrightSuccess = !!finalHtml || harvestedUrls.length > 0
CloseOk ==
    /\ UNCHANGED <<clientVars, fnVars>>
    /\ phase = "closing"
    /\ browserOpen' = FALSE
    /\ playwrightSuccess' = (htmlCaptured \/ Len(harvestedUrls) > 0)
    /\ GoTo("done")
    /\ UNCHANGED <<pwBoardUrl, networkPins, failures>>
    /\ UNCHANGED <<pgVars, scrollVars, harvestVars, outVars, scrapeVars>>

\* an awaited call of the harvester rejects at the current position
HarvesterFails ==
    /\ UNCHANGED <<clientVars, fnVars>>
    /\ phase \in HarvesterPositions
    /\ phase = "paginating" => ~pgInFlight
    /\ phase \in {"paginating", "sections", "detailFilling"} => parseBoardUrl(pwBoardUrl)
    /\ failures' = failures \cup {SpecPhase(phase)}
    /\ GoTo(AfterFailure(phase))
    /\ IF phase = "launching" THEN browserOpen' \in BOOLEAN ELSE UNCHANGED browserOpen
    /\ UNCHANGED <<pwBoardUrl, networkPins, playwrightSuccess>>
    /\ UNCHANGED <<pgVars, scrollVars, harvestVars, outVars, scrapeVars>>

\* if (!playwrightSuccess): the static fetch answers with a success status
FallbackOk ==
    /\ UNCHANGED <<clientVars, fnVars>>
    /\ phase = "done"
    /\ ~playwrightSuccess
    /\ finalHtml' \in PwHtmlSamples
    /\ phase' = "fusing"
    /\ UNCHANGED <<pwBoardUrl, networkPins, playwrightSuccess, browserOpen, phaseLog, failures,
                   harvestedUrls, htmlCaptured>>
    /\ UNCHANGED <<pgVars, scrollVars, outVars, scrapeVars>>

\* the static fetch rejects or answers with a non-success status: the route's catch
FallbackFails ==
    /\ UNCHANGED <<clientVars, fnVars>>
    /\ phase = "done"
    /\ ~playwrightSuccess
    /\ phase' = "responded"
    /\ pwHttpStatus' = 500
    /\ UNCHANGED <<pwBoardUrl, networkPins, playwrightSuccess, browserOpen, phaseLog, failures,
                   finalImages, networkAtFusion>>
    /\ UNCHANGED <<pgVars, scrollVars, harvestVars, scrapeVars>>

\* the fusion and the response; extractImagesFromHtml may throw into the route's catch
FuseAndRespond ==
    /\ UNCHANGED <<clientVars, fnVars>>
    /\ \/ phase = "done" /\ playwrightSuccess
       \/ phase = "fusing"
    /\ LET r == extractImagesFromHtml(finalHtml) IN
       /\ networkAtFusion' = networkPins
       /\ IF r.threw
          THEN /\ pwHttpStatus' = 500
               /\ UNCHANGED finalImages
          ELSE /\ pwHttpStatus' = 200
               /\ finalImages' = Fusion(networkPins, harvestedUrls, r.images)
    /\ phase' = "responded"
    /\ UNCHANGED <<pwBoardUrl, networkPins, playwrightSuccess, browserOpen, phaseLog, failures>>
    /\ UNCHANGED <<pgVars, scrollVars, harvestVars, scrapeVars>>

NextPw ==
    \/ PwStart
    \/ LaunchOk
    \/ NavigateOk
    \/ InterceptFeed
    \/ ScrollStep
    \/ PartsMissing
    \/ PaginateRequest
    \/ PaginateResponse
    \/ SectionsOrDetailsDone
    \/ HarvestOk
    \/ CaptureOk
    \/ CloseOk
    \/ HarvesterFails
    \/ FallbackOk
    \/ FallbackFails
    \/ FuseAndRespond

SpecPw == InitPw /\ [][NextPw]_vars

(***************************************************************************)
(* Properties of the playwright-scrape route (SpecPw)                      *)
(***************************************************************************)
PwAnswered == phase = "responded" /\ pwHttpStatus = 200

IdentityHash(p) == getHashFromUrl(CandidateUrl(p))

NetworkConfirmed(p, np) ==
    p.id \in NetworkPinIds(np) \/ IdentityHash(p) \in NetworkHashes(np)

\* C4: with a non-empty network-confirmed set, every item of the final list has the id of
\* a network-confirmed item or the identity hash of a network-confirmed item's image URL.
C4_ValidationInvariant ==
    (PwAnswered /\ networkAtFusion # <<>>) =>
        \A i \in DOMAIN finalImages : NetworkConfirmed(finalImages[i], networkAtFusion)

\* a fused list that holds a network item, a DOM item admitted by hash only, while a
\* harvested URL and a markup item unknown to the network were left out
C4_Witness ==
    /\ PwAnswered
    /\ networkAtFusion # <<>>
    /\ \E i \in DOMAIN finalImages : finalImages[i].id \notin NetworkPinIds(networkAtFusion)
    /\ \E i \in DOMAIN finalImages : finalImages[i].id \in NetworkPinIds(networkAtFusion)
    /\ \E j \in DOMAIN harvestedUrls :
          /\ shouldKeepUrl(harvestedUrls[j])
          /\ getHashFromUrl(harvestedUrls[j]) \notin Ids(finalImages)

\* C5: with an empty network-confirmed set at fusion time, every item extractImagesFromHtml
\* extracts from the final or fallback markup is in the final list.
C5_EmptyNetworkAcceptsMarkupItems ==
    (PwAnswered /\ networkAtFusion = <<>>) =>
        LET htmlPins == extractImagesFromHtml(finalHtml).images IN
        \A i \in DOMAIN htmlPins : \E j \in DOMAIN finalImages : finalImages[j] = htmlPins[i]

\* C6: every item of the network-confirmed set at the start of the fusion is in the final
\* list with the field values it had in that set.
C6_NetworkItemsUnchanged ==
    PwAnswered =>
        \A i \in DOMAIN networkAtFusion :
            \E j \in DOMAIN finalImages : finalImages[j] = networkAtFusion[i]

\* a fusion in which a harvested URL and a markup item both carry the key of a network item
C6_Witness ==
    /\ PwAnswered
    /\ \E i \in DOMAIN networkAtFusion :
          /\ \E j \in DOMAIN harvestedUrls :
                getHashFromUrl(harvestedUrls[j]) = networkAtFusion[i].id
          /\ \E j \in DOMAIN finalImages : finalImages[j] = networkAtFusion[i]
    /\ \E i \in DOMAIN networkAtFusion :
          LET htmlPins == extractImagesFromHtml(finalHtml).images IN
          \E k \in DOMAIN htmlPins :
              htmlPins[k].id = networkAtFusion[i].id /\ htmlPins[k] # networkAtFusion[i]

PhaseOrder == <<"Navigating", "Scrolling", "Paginating", "DetailFilling", "Harvesting", "Done">>

Rank(ph) == CHOOSE i \in DOMAIN PhaseOrder : PhaseOrder[i] = ph

InOrderOnce(log) ==
    \A i, j \in DOMAIN log : i < j => Rank(log[i]) < Rank(log[j])

\* after the phase f was entered, only Done was entered
OnlyDoneAfter(log, f) ==
    \A i, j \in DOMAIN log : (log[i] = f /\ i < j) => log[j] = "Done"

\* C10 as stated: the phases are entered in order, each at most once, and after a failed
\* phase no phase but Done is entered.
C10_EveryFailureGoesToDone ==
    /\ InOrderOnce(phaseLog)
    /\ \A f \in failures : OnlyDoneAfter(phaseLog, f)

HarvesterFailed == failures # {}

Contains(items, sub) ==
    \A i \in DOMAIN sub : \E j \in DOMAIN items : items[j] = sub[i]

\* C11: after a harvester failure the route ends with a success result that holds every
\* network pin gathered before the failure, whatever the static fallback fetch does.
\* networkPins only grows, so the pins gathered before the failure are among networkPins.
C11_FailureKeepsNetworkPins ==
    (phase = "responded" /\ HarvesterFailed /\ networkPins # <<>>) =>
        (pwHttpStatus = 200 /\ Contains(finalImages, networkPins))

(***************************************************************************)
(* Both routes: one invocation of either                                   *)
(***************************************************************************)
InitRoutes == InitScrape \/ InitPw

NextRoutes == NextScrape \/ NextPw

SpecRoutes == InitRoutes /\ [][NextRoutes]_vars

\* C12: a pagination request is issued only when no earlier one is in flight, that is
\* after the response to the previous one was consumed and merged, in
\* scrapePinterestBoard and in the in-page pagination.
C12_OneRequestInFlight ==
    [][ /\ feedRequests' # feedRequests => (pc = "loop" /\ pc' = "fetchingFeed")
        /\ pgRequests' > pgRequests => (~pgInFlight /\ pgInFlight')
        /\ (pc = "fetchingFeed" /\ pc' # pc) => feedRequests' = feedRequests
        /\ (pgInFlight /\ phase' = "paginating" /\ ~pgInFlight') =>
              (pgRequests' = pgRequests /\ Len(pgCollected') >= Len(pgCollected)) ]_vars

\* the second in-page request is in flight, the pins of the first response collected
C12_Witness ==
    /\ phase = "paginating"
    /\ pgInFlight
    /\ pgRequests = 2
    /\ pgCollected # <<>>

\* C13: every feed request of scrapePinterestBoard after the first is issued from a
\* position reached by a delay step ("delayed"), never straight from the merge of the
\* previous response.
C13_DelayBetweenFeedRequests ==
    [][ (feedRequests' > feedRequests /\ feedRequests > 0) => pc = "delayed" ]_vars

\* C14: after a feed response that added pins (one that added none ends the pagination
\* whatever it carried), the next token scrapePinterestBoard holds is the token the
\* response carried, at whichever of the known paths it stood, and the loop does not
\* stop for want of a token the response carried.
C14_TokenFoundAtEveryPath ==
    (feedRequests > 0 /\ pc \in {"loop", "returned"} /\ newPinsAdded > 0) =>
        (nextBookmark = tokenCarried /\ (stop = "noToken" => tokenCarried = NoToken))

(***************************************************************************)
(* Page component: downloadSelected and downloadWithRetry                  *)
(*  selection[i] tells whether the i-th selected image has a URL of the    *)
(*  chosen size; dl[i] is the call downloadWithRetry(image, i): st         *)
(*  ("fetching", "waiting" for the retry timer, "resolved", "rejected"),   *)
(*  attempt, failed (attempts that failed), delays (the timers waited, in  *)
(*  ms) and result (NoFile is null).                                       *)
(***************************************************************************)
MaxSelected == 2

maxRetries == 3

\* what an attempt can meet: a good image, a non-success status, an empty body, a body
\* that is no image, a rejected fetch
DownloadOutcomes == {"ok", "http403", "emptyBlob", "notImage", "throws"}

NoFile == [filename |-> 0, blob |-> [item |-> 0, attempt |-> 0]]

\* { filename, blob }: the file name carries the index, the blob is the body of this attempt
FileOf(i, attempt) == [filename |-> i, blob |-> [item |-> i, attempt |-> attempt]]

RetryDelay_Constant(attempt) == 1000

\* setTimeout(resolve, attempt * 1000)
RetryDelay(attempt) == attempt * 1000

AfterFailedAttempt_Rethrows(attempt, limit) == IF attempt = limit THEN "throw" ELSE "retry"

\* if (attempt === maxRetries) return null; else wait and go round
AfterFailedAttempt(attempt, limit) == IF attempt = limit THEN "null" ELSE "retry"

\* downloadWithRetry up to its first await: null without a URL, else the first fetch
StartItem(hasUrl) ==
    [hasUrl |-> hasUrl, st |-> IF hasUrl THEN "fetching" ELSE "resolved",
     attempt |-> IF hasUrl THEN 1 ELSE 0, failed |-> 0, delays |-> <<>>, result |-> NoFile]

Selections == UNION {[1..n -> BOOLEAN] : n \in 0..MaxSelected}

\* an image of the page; one without the `large` field has no URL of that size
PageItem(i, hasLarge) ==
    Item(PinId(i), ContentUrl("236x", Hash(i)), ContentUrl("474x", Hash(i)),
         IF hasLarge THEN ContentUrl("736x", Hash(i)) ELSE NoUrl,
         ContentUrl("originals", Hash(i)), "")

\* the pages of up to MaxSelected images
PageSamples == {[i \in DOMAIN f |-> PageItem(i, f[i])] : f \in Selections}

\* images.filter(img => selectedImages.has(img.id))
selectedImagesList == SelectSeq(pageImages, LAMBDA img : img.id \in selectedImages)

InitDownload ==
    /\ pc = "idle"
    /\ phase = "idle"
    /\ ScrapeInit
    /\ boardUrl = "board"
    /\ maxPages = 0
    /\ PwInit
    /\ pwBoardUrl = "board"
    /\ dlPc = "idle"
    /\ dlAgain = FALSE
    /\ selection = <<>>
    /\ pageImages \in PageSamples
    /\ selectedImages \in SUBSET Ids(pageImages)
    /\ imageSize \in ImageSizes
    /\ dl = <<>>
    /\ zipFiles = {}
    /\ downloading = FALSE
    /\ uiError = ""
    /\ uiSuccess = NoMsg
    /\ received = NoResponse
    /\ HsIdle
    /\ FnIdle

\* a call of downloadSelected is over: it returned after the alert, or its finally ran
DownloadOver == dlPc \in {"nothingSelected", "saved", "zipFailed", "aborted"}

\* downloadSelected up to await Promise.all, called again whenever no download is
\* running (the button is disabled while `downloading`); every call has a new JSZip
\* and clears the error and the message; image[imageSize] is read with the size chosen
\* at the click
DownloadSelected ==
    /\ dlPc = "idle" \/ DownloadOver
    /\ ~downloading
    /\ dlAgain' = (dlPc # "idle")
    /\ selection' = [i \in DOMAIN selectedImagesList |->
                         selectedImagesList[i][imageSize] # NoUrl]
    /\ IF Len(selectedImagesList) = 0
       THEN /\ dlPc' = "nothingSelected"
            /\ UNCHANGED <<dl, zipFiles, downloading, uiError, uiSuccess>>
       ELSE /\ dlPc' = "downloading"
            /\ downloading' = TRUE
            /\ uiError' = ""
            /\ uiSuccess' = NoMsg
            /\ zipFiles' = {}
            /\ dl' = [i \in DOMAIN selectedImagesList |->
                         StartItem(selectedImagesList[i][imageSize] # NoUrl)]
    /\ UNCHANGED <<received, scrapeVars, pwVars, fnVars, hsVars>>

(***************************************************************************)
(* The controls of the page, shown while images.length > 0                 *)
(***************************************************************************)
\* toggleImageSelection(image.id) of one of the images shown
ToggleImageSelection ==
    /\ \E i \in DOMAIN pageImages :
          selectedImages' = IF pageImages[i].id \in selectedImages
                            THEN selectedImages \ {pageImages[i].id}
                            ELSE selectedImages \cup {pageImages[i].id}
    /\ UNCHANGED <<pageImages, imageSize, hsPc, loading, hsLog>>
    /\ UNCHANGED <<dlPc, dlAgain, selection, dl, zipFiles, downloading, uiError, uiSuccess, received>>
    /\ UNCHANGED <<scrapeVars, pwVars, fnVars>>

\* setSelectedImages(new Set(images.map(img => img.id)))
SelectAll ==
    /\ pageImages # <<>>
    /\ selectedImages' = Ids(pageImages)
    /\ UNCHANGED <<pageImages, imageSize, hsPc, loading, hsLog>>
    /\ UNCHANGED <<dlPc, dlAgain, selection, dl, zipFiles, downloading, uiError, uiSuccess, received>>
    /\ UNCHANGED <<scrapeVars, pwVars, fnVars>>

\* setSelectedImages(new Set())
DeselectAll ==
    /\ pageImages # <<>>
    /\ selectedImages' = {}
    /\ UNCHANGED <<pageImages, imageSize, hsPc, loading, hsLog>>
    /\ UNCHANGED <<dlPc, dlAgain, selection, dl, zipFiles, downloading, uiError, uiSuccess, received>>
    /\ UNCHANGED <<scrapeVars, pwVars, fnVars>>

\* the onChange of the size list: setImageSize(e.target.value)
SetImageSize ==
    /\ pageImages # <<>>
    /\ \E size \in ImageSizes \ {imageSize} : imageSize' = size
    /\ UNCHANGED <<pageImages, selectedImages, hsPc, loading, hsLog>>
    /\ UNCHANGED <<dlPc, dlAgain, selection, dl, zipFiles, downloading, uiError, uiSuccess, received>>
    /\ UNCHANGED <<scrapeVars, pwVars, fnVars>>

\* the fetch of one item's current attempt settles
AttemptSettles ==
    /\ dlPc = "downloading"
    /\ \E i \in DOMAIN dl, o \in DownloadOutcomes :
        /\ dl[i].st = "fetching"
        /\ IF o = "ok"
           THEN /\ dl' = [dl EXCEPT ![i].st = "resolved",
                                    ![i].result = FileOf(i, dl[i].attempt)]
                /\ zipFiles' = zipFiles \cup {FileOf(i, dl[i].attempt)}
           ELSE LET next == AfterFailedAttempt(dl[i].attempt, maxRetries) IN
                /\ dl' = [dl EXCEPT
                            ![i].failed = dl[i].failed + 1,
                            ![i].st = CASE next = "null" -> "resolved"
                                        [] next = "retry" -> "waiting"
                                        [] OTHER -> "rejected",
                            ![i].delays = IF next = "retry"
                                          THEN Append(dl[i].delays, RetryDelay(dl[i].attempt))
                                          ELSE dl[i].delays]
                /\ UNCHANGED zipFiles
    /\ UNCHANGED <<dlPc, dlAgain, selection, downloading, uiError, uiSuccess, received, scrapeVars, pwVars, fnVars, hsVars>>

\* the retry timer of one item fires: the next attempt
RetryTimerFires ==
    /\ dlPc = "downloading"
    /\ \E i \in DOMAIN dl :
        /\ dl[i].st = "waiting"
        /\ dl' = [dl EXCEPT ![i].st = "fetching", ![i].attempt = dl[i].attempt + 1]
    /\ UNCHANGED <<dlPc, dlAgain, selection, zipFiles, downloading, uiError, uiSuccess, received,
                   scrapeVars, pwVars, fnVars, hsVars>>

\* await Promise.all(downloadPromises): rejects with the first rejected item (the catch
\* and finally of downloadSelected), resolves when every item has resolved
PromiseAllSettles ==
    /\ dlPc = "downloading"
    /\ IF \E i \in DOMAIN dl : dl[i].st = "rejected"
       THEN /\ dlPc' = "aborted"
            /\ uiError' = "Failed to create ZIP file"
            /\ downloading' = FALSE
       ELSE /\ \A i \in DOMAIN dl : dl[i].st = "resolved"
            /\ dlPc' = "zipping"
            /\ UNCHANGED <<uiError, downloading>>
    /\ UNCHANGED <<dlAgain, selection, dl, zipFiles, uiSuccess, received, scrapeVars, pwVars, fnVars, hsVars>>

\* zip.generateAsync settles; saveAs and the message, or the catch; then finally
ZipSettles ==
    /\ dlPc = "zipping"
    /\ \E generated \in BOOLEAN :
        LET successfulDownloads == Cardinality({i \in DOMAIN dl : dl[i].result # NoFile})
            failedDownloads == Len(dl) - successfulDownloads
        IN IF generated
           THEN /\ dlPc' = "saved"
                /\ uiSuccess' = [kind |-> IF failedDownloads > 0 THEN "partial" ELSE "all",
                                 downloaded |-> successfulDownloads,
                                 failed |-> failedDownloads]
                /\ UNCHANGED uiError
           ELSE /\ dlPc' = "zipFailed"
                /\ uiError' = "Failed to create ZIP file"
                /\ UNCHANGED uiSuccess
    /\ downloading' = FALSE
    /\ UNCHANGED <<dlAgain, selection, dl, zipFiles, received, scrapeVars, pwVars, fnVars, hsVars>>

NextDownload ==
    \/ ToggleImageSelection
    \/ SelectAll
    \/ DeselectAll
    \/ SetImageSize
    \/ DownloadSelected
    \/ AttemptSettles
    \/ RetryTimerFires
    \/ PromiseAllSettles
    \/ ZipSettles

SpecDownload == InitDownload /\ [][NextDownload]_vars

StrictlyIncreasing(seq) == \A j, k \in DOMAIN seq : j < k => seq[j] < seq[k]

\* C15: downloadWithRetry makes at most maxRetries attempts; a success after k failed
\* attempts returns the body of attempt k + 1 after exactly k waits; the waits are
\* strictly increasing; after the last failed attempt nothing is waited.
C15_RetryDiscipline ==
    \A i \in DOMAIN dl :
        /\ dl[i].attempt <= maxRetries
        /\ StrictlyIncreasing(dl[i].delays)
        /\ Len(dl[i].delays) <= maxRetries - 1
        /\ (dl[i].st = "resolved" /\ dl[i].result # NoFile) =>
              /\ dl[i].failed < maxRetries
              /\ dl[i].attempt = dl[i].failed + 1
              /\ Len(dl[i].delays) = dl[i].failed
              /\ dl[i].result = FileOf(i, dl[i].failed + 1)
        /\ (dl[i].st = "resolved" /\ dl[i].result = NoFile /\ dl[i].hasUrl) =>
              /\ dl[i].failed = maxRetries
              /\ dl[i].attempt = maxRetries
              /\ Len(dl[i].delays) = maxRetries - 1

\* in a download started after an earlier one was over, an item that failed twice and
\* succeeded at the third attempt, after two waits
C15_Witness ==
    /\ dlAgain
    /\ \E i \in DOMAIN dl :
        /\ dl[i].st = "resolved"
        /\ dl[i].failed = 2
        /\ dl[i].result = FileOf(i, 3)
        /\ Len(dl[i].delays) = 2

Succeeded == {i \in DOMAIN dl : dl[i].result # NoFile}

\* the batch the last call of downloadSelected started: no item rejects and nothing
\* aborts; once the downloads are over every item has resolved with the result its own
\* attempts decide, the archive of this call holds exactly one file per successful item,
\* and the message counts successes and failures, which add up to the selection
BatchSurvives ==
    /\ dlPc # "aborted"
    /\ \A i \in DOMAIN dl : dl[i].st # "rejected"
    /\ dlPc \in {"downloading", "zipping", "saved"} => uiError = ""
    /\ dlPc \in {"zipping", "saved", "zipFailed"} =>
          /\ Len(dl) = Len(selection)
          /\ \A i \in DOMAIN dl :
                /\ dl[i].st = "resolved"
                /\ (dl[i].result # NoFile) <=> (dl[i].hasUrl /\ dl[i].failed < maxRetries)
          /\ zipFiles = {dl[i].result : i \in Succeeded}
          /\ Cardinality(zipFiles) = Cardinality(Succeeded)
    /\ dlPc = "saved" =>
          /\ uiSuccess.downloaded = Cardinality(Succeeded)
          /\ uiSuccess.downloaded + uiSuccess.failed = Len(selection)
          /\ (uiSuccess.kind = "partial") <=> (uiSuccess.failed > 0)

\* the error state is set by no step but the failing generation of the archive, and
\* no step changes what another item's call of downloadWithRetry has reached
ErrorOnlyFromArchive ==
    /\ (uiError' # uiError /\ uiError' # "") => (dlPc = "zipping" /\ dlPc' = "zipFailed")
    /\ (dlPc = "downloading" /\ dlPc' = "downloading") =>
          \A i, j \in DOMAIN dl : (i # j /\ dl'[i] # dl[i]) => dl'[j] = dl[j]

\* C16: in every download, the first and each later one, no item failure aborts the
\* batch or alters another item's download; once the downloads are over every item has
\* resolved with the result its own attempts decide, the archive holds exactly one file
\* per successful item, the message counts successes and failures which add up to the
\* selection, and the error state is set by a failed archive generation only.
C16_BatchSurvivesItemFailures == []BatchSurvives /\ [][ErrorOnlyFromArchive]_vars

\* a saved archive of a download started after an earlier one was over, in which one
\* item failed for good and another succeeded after a retry
C16_Witness ==
    /\ dlAgain
    /\ dlPc = "saved"
    /\ uiSuccess.kind = "partial"
    /\ \E i, j \in DOMAIN dl :
          /\ dl[i].failed = maxRetries
          /\ dl[j].result # NoFile
          /\ dl[j].failed > 0

(***************************************************************************)
(* handleScrape's postJson (page.tsx 29-46): one request to a scrape       *)
(* endpoint under an abort timer.  The routes never read the request's     *)
(* signal, so an invocation goes on after the abort and its items stay on  *)
(* the server.                                                             *)
(***************************************************************************)
\* postJson is awaiting fetch: the request went out and no response has reached it
InFlight ==
    /\ received.kind = "none"
    /\ pc # "idle" \/ phase # "idle"

\* the items the invocation holds at this point of its run
Accumulated == IF phase # "idle" THEN networkPins ELSE allImages

\* the JSON body and status of the route's answer, as postJson packs them
ResponseOf ==
    LET status == IF phase # "idle" THEN pwHttpStatus ELSE httpStatus
        images == IF phase # "idle" THEN finalImages ELSE allImages
    IN  [kind |-> "response", ok |-> status = 200,
         images |-> IF status = 200 THEN images ELSE <<>>,
         error |-> IF status = 200 THEN "" ELSE RouteErrorText]

\* the timer fires while fetch is pending, the route running or already returned:
\* fetch rejects with an AbortError and the catch packs its message
PostJsonAborts ==
    /\ InFlight
    /\ received' = [kind |-> "aborted", ok |-> FALSE, images |-> <<>>, error |-> AbortMessage]
    /\ UNCHANGED <<dlPc, dlAgain, selection, dl, zipFiles, downloading, uiError, uiSuccess>>
    /\ UNCHANGED <<scrapeVars, pwVars, fnVars, hsVars>>

\* await fetch resolves: status and headers of the route's answer have arrived
FetchResolves ==
    /\ InFlight
    /\ pc = "responded" \/ phase = "responded"
    /\ received' = [kind |-> "headers", ok |-> ResponseOf.ok, images |-> <<>>, error |-> ""]
    /\ UNCHANGED <<dlPc, dlAgain, selection, dl, zipFiles, downloading, uiError, uiSuccess>>
    /\ UNCHANGED <<scrapeVars, pwVars, fnVars, hsVars>>

\* await res.json() resolves before the timer: postJson returns { ok: res.ok, data }
PostJsonResolves ==
    /\ received.kind = "headers"
    /\ received' = ResponseOf
    /\ UNCHANGED <<dlPc, dlAgain, selection, dl, zipFiles, downloading, uiError, uiSuccess>>
    /\ UNCHANGED <<scrapeVars, pwVars, fnVars, hsVars>>

\* the timer fires while the body is read: res.json() rejects, .catch(() => ({})) turns
\* the rejection into an empty object and postJson returns { ok: res.ok, data: {} }
PostJsonBodyAborts ==
    /\ received.kind = "headers"
    /\ received' = [kind |-> "response", ok |-> received.ok, images |-> <<>>, error |-> ""]
    /\ UNCHANGED <<dlPc, dlAgain, selection, dl, zipFiles, downloading, uiError, uiSuccess>>
    /\ UNCHANGED <<scrapeVars, pwVars, fnVars, hsVars>>

NextClient ==
    \/ NextScrape
    \/ NextPw
    \/ PostJsonAborts
    \/ FetchResolves
    \/ PostJsonResolves
    \/ PostJsonBodyAborts

SpecClient == InitRoutes /\ [][NextClient]_vars

\* C17: when postJson aborts an in-flight scrape invocation, what the caller receives
\* holds the items the invocation had accumulated at that moment.
C17_AbortReturnsAccumulated ==
    [][ (received.kind = "none" /\ received'.kind = "aborted" /\ Accumulated # <<>>) =>
            (received'.images # <<>> /\ Contains(received'.images, Accumulated)) ]_vars

(***************************************************************************)
(* URLs as text.                                                           *)
(*  For the functions that work on the characters of a URL the string is   *)
(*  a sequence of tokens: "O" is the literal https://i.pinimg.com/ , "X"   *)
(*  the origin of another host (https://example.com/), "/", "." and "?"    *)
(*  are themselves, and every other token is a non-empty run of word       *)
(*  characters (\w+).  No two word tokens are adjacent and an origin       *)
(*  stands at the head of the text only.                                   *)
(***************************************************************************)
Punct == {"O", "X", "/", ".", "?"}

IsWord(t) == t \notin Punct

TargetSizes == {"originals", "736x", "564x", "474x", "236x"}

\* the index of the least element of a set of indices, 0 for the empty set
Least(I) == IF I = {} THEN 0 ELSE CHOOSE i \in I : \A j \in I : i <= j

Greatest(I) == IF I = {} THEN 0 ELSE CHOOSE i \in I : \A j \in I : i >= j

\* where /https:\/\/i\.pinimg\.com\/(\d+x|\w+)\// matches first: the index of the
\* origin token, 0 when the pattern does not match
FirstMatch(str) ==
    Least({i \in DOMAIN str :
              /\ str[i] = "O"
              /\ i + 2 <= Len(str)
              /\ IsWord(str[i + 1])
              /\ str[i + 2] = "/"})

\* a replace that keeps the matched segment and puts the size in front of it
transformImageUrlText_Inserts(str, size) ==
    LET m == FirstMatch(str) IN
    IF m = 0 THEN str
    ELSE SubSeq(str, 1, m) \o <<size, "/">> \o SubSeq(str, m + 1, Len(str))

\* url.replace(pattern, `https://i.pinimg.com/${size}/`): the first match only
transformImageUrlText(str, size) ==
    LET m == FirstMatch(str) IN
    IF m = 0 THEN str ELSE [str EXCEPT ![m + 1] = size]

\* x.split('.')[0]
UpToDot(run) ==
    LET d == Least({i \in DOMAIN run : run[i] = "."}) IN
    IF d = 0 THEN run ELSE SubSeq(run, 1, d - 1)

\* x.split('/') and its last element (an origin ends with a slash)
AfterLastSlash(str) ==
    SubSeq(str, Greatest({i \in DOMAIN str : str[i] \in {"/", "O", "X"}}) + 1, Len(str))

\* x.split('/'): the runs between the slashes, empty ones included
RECURSIVE SplitSlash(_)
SplitSlash(run) ==
    LET sl == Least({i \in DOMAIN run : run[i] = "/"}) IN
    IF sl = 0 THEN <<run>>
    ELSE <<SubSeq(run, 1, sl - 1)>> \o SplitSlash(SubSeq(run, sl + 1, Len(run)))

\* the path of the URL parser: a '..' segment removes the segment before it, a '.'
\* segment adds nothing, and either of them in last place leaves an empty segment
RECURSIVE ResolveDots(_, _)
ResolveDots(segs, path) ==
    IF segs = <<>> THEN path
    ELSE LET seg == Head(segs)
             atEnd == IF Len(segs) = 1 THEN << <<>> >> ELSE <<>>
         IN IF seg = <<".", ".">>
            THEN ResolveDots(Tail(segs),
                             (IF path = <<>> THEN path ELSE SubSeq(path, 1, Len(path) - 1))
                             \o atEnd)
            ELSE IF seg = <<".">>
            THEN ResolveDots(Tail(segs), path \o atEnd)
            ELSE ResolveDots(Tail(segs), Append(path, seg))

\* segments.join('/')
RECURSIVE JoinSlash(_)
JoinSlash(segs) ==
    IF segs = <<>> THEN <<>>
    ELSE IF Len(segs) = 1 THEN Head(segs)
    ELSE Head(segs) \o <<"/">> \o JoinSlash(Tail(segs))

\* The URL parser of the runtime: "whatwg" resolves the dot segments as the URL
\* standard says; "ada" is the parser of Node 20 (ada 2.9), which takes a path as it
\* is when it does not begin with a dot and the first "/." in it is followed by a
\* character that is neither a dot nor a slash.
UrlParsers == {"whatwg", "ada"}

AdaKeepsPath(raw) ==
    LET sd == Least({i \in DOMAIN raw : raw[i] = "/" /\ i < Len(raw) /\ raw[i + 1] = "."}) IN
    /\ raw # <<>>
    /\ raw[1] # "."
    /\ sd # 0
    /\ sd + 2 <= Len(raw)
    /\ raw[sd + 2] \notin {".", "/"}

\* new URL(u).pathname, without its leading slash: what follows the origin, up to the
\* query, with its dot segments resolved as the parser resolves them
Pathname(str, parser) ==
    LET body == Tail(str)
        q == Least({i \in DOMAIN body : body[i] = "?"})
        raw == IF q = 0 THEN body ELSE SubSeq(body, 1, q - 1)
    IN IF parser = "ada" /\ AdaKeepsPath(raw)
       THEN raw
       ELSE JoinSlash(ResolveDots(SplitSlash(raw), <<>>))

\* x.split('/').filter(Boolean).pop() || ''
LastNonEmptySegment(path) ==
    LET end == Greatest({i \in DOMAIN path : path[i] # "/"}) IN
    AfterLastSlash(SubSeq(path, 1, end))

\* the first path segment instead of the last one
getHashFromUrlText_FirstSegment(str, parser) ==
    IF str # <<>> /\ Head(str) \in {"O", "X"}
    THEN LET p == Pathname(str, parser)
             sl == Least({i \in DOMAIN p : p[i] = "/"})
         IN UpToDot(IF sl = 0 THEN p ELSE SubSeq(p, 1, sl - 1))
    ELSE UpToDot(AfterLastSlash(str))

\* getHashFromUrl on the text; new URL throws on a text without origin and the catch
\* splits the raw string; <<>> is null
getHashFromUrlText(str, parser) ==
    IF str # <<>> /\ Head(str) \in {"O", "X"}
    THEN UpToDot(LastNonEmptySegment(Pathname(str, parser)))
    ELSE UpToDot(AfterLastSlash(str))

\* imageUrl.split('/').slice(-1)[0].split('.')[0] of the heuristic pass
LastSegmentHashText(str) == UpToDot(AfterLastSlash(str))

UrlHeads == {<<"O">>, <<"X">>, <<>>, <<"/">>}

UrlDirs ==
    {<<>>, <<"a", ".", "b", "/">>, <<".", "/">>, <<"236x", "/", ".", "a", "/">>}
    \cup {<<d, "/">> : d \in {"236x", "originals", "ab"}}
    \cup {<<d, "/", e, "/">> : d \in {"236x", "originals", "ab"}, e \in {"ab", "736x"}}

UrlFiles ==
    { <<>>, <<"h1">>, <<"h1", ".", "jpg">>, <<"236x", ".", "jpg">>, <<".", ".">>,
      <<"h1", ".", "jpg", "?", "v">>, <<"h1", ".", "jpg", "?", "r", "/", "736x">> }

UrlTexts == {h \o d \o f : h \in UrlHeads, d \in UrlDirs, f \in UrlFiles}

\* a URL of the CDN with a size segment and something below it that names the asset
IsCdnUrl(str, parser) ==
    /\ FirstMatch(str) = 1
    /\ Greatest({i \in DOMAIN Pathname(str, parser) : Pathname(str, parser)[i] # "/"}) > 2

(***************************************************************************)
(* Markup for the heuristic pass on its own                                *)
(***************************************************************************)
BadHash == Nm("word", 9, 1)

AvatarOcc == Occ(Url("236x", <<"aa", "avatars", "cc">>, Hash(3), "jpg"), "src", 1)

AvatarDirOcc == Occ(Url("avatars", <<>>, Hash(7), "jpg"), "src", 1)

FrequentOcc == Occ(ContentUrl("236x", Hash(4)), "src", 150)

ContentOcc == Occ(ContentUrl("236x", Hash(5)), "src", 8)

BadHashOcc == Occ(ContentUrl("236x", BadHash), "src", 1)

NoSizeOcc == Occ(Url("", <<>>, Hash(6), "jpg"), "src", 1)

\* a content path below a size segment that is none of the pin sizes
OtherDimOcc == Occ(ContentUrl("600x315", Hash(8)), "src", 1)

\* a resized-square asset of a size the reserved test names only by its suffix
RsOcc == Occ(ContentUrl("140x140_RS", Hash(9)), "src", 1)

\* a file name with an underscore: pattern 7 captures the URL up to the underscore
PunctOcc == Occ(ContentUrl("236x", Nm("punct", 9, 2)), "src", 1)

SampleOccs ==
    {AvatarOcc, AvatarDirOcc, FrequentOcc, ContentOcc, BadHashOcc, NoSizeOcc, OtherDimOcc,
     RsOcc, PunctOcc}

\* every arrangement of up to four different occurrences
HeuristicSamples ==
    {NoBlobHtml(q) : q \in
        {q \in UNION {[1..n -> SampleOccs] : n \in 0..4} :
            \A i, j \in DOMAIN q : i # j => q[i] # q[j]}}

ExclusionSample == NoBlobHtml(<<AvatarOcc, FrequentOcc, ContentOcc, BadHashOcc>>)

\* a blob item without the 236x field
NoThumbPin(i) == RawPin(PinId(i), ThumbOnly(NoUrl), "n")

\* an item with a 14-digit id, which the pin pattern over the serialised blob does not
\* match and only the tree walk can find
ShortIdPin(i) == RawPin(Nm("digits", 14, i), ThumbOnly(ContentUrl("236x", Hash(i))), "t")

BlobNodes ==
    {FeedPin(1), FeedPin(2), FeedPin(3), NoThumbPin(8), NoThumbPin(9),
     ShortIdPin(4), AtDepth(ShortIdPin(5), MaxWalkDepth + 1)}

\* documents whose blob holds up to four different items, in every order
BlobSamples ==
    {BlobHtml(q, <<>>) : q \in
        {q \in UNION {[1..n -> BlobNodes] : n \in 0..4} :
            \A i, j \in DOMAIN q : i # j => q[i] # q[j]}}

EndToEndSample == BlobHtml(<<FeedPin(1), FeedPin(2), NoThumbPin(8), FeedPin(3)>>, <<>>)

(***************************************************************************)
(* The functions applied to drawn arguments                                *)
(***************************************************************************)
InitFn ==
    /\ pc = "idle"
    /\ phase = "idle"
    /\ ScrapeInit
    /\ boardUrl = "board"
    /\ maxPages = 0
    /\ PwInit
    /\ pwBoardUrl = "board"
    /\ ClientInit
    /\ fnOut = NoJob
    /\ \/ /\ fnPc = "url"
          /\ fnIn \in {[job |-> "url", url |-> u, s1 |-> a, s2 |-> b, parser |-> pr] :
                          u \in UrlTexts, a \in TargetSizes, b \in TargetSizes,
                          pr \in UrlParsers}
       \/ /\ fnPc = "markup"
          /\ fnIn \in {[job |-> "markup", html |-> h] : h \in HeuristicSamples \cup BlobSamples}

ApplyTransform ==
    /\ fnPc = "url"
    /\ fnPc' = "transformed"
    /\ fnOut' = [job |-> "url",
                 once |-> transformImageUrlText(fnIn.url, fnIn.s1),
                 twice |-> transformImageUrlText(transformImageUrlText(fnIn.url, fnIn.s1), fnIn.s1),
                 other |-> transformImageUrlText(fnIn.url, fnIn.s2)]
    /\ UNCHANGED <<fnIn, scrapeVars, pwVars, clientVars>>

HashesOf(str, parser) ==
    [url |-> getHashFromUrlText(str, parser), last |-> LastSegmentHashText(str)]

DeriveHashes ==
    /\ fnPc = "transformed"
    /\ fnPc' = "hashed"
    /\ fnOut' = [job |-> "hashes",
                 once |-> fnOut.once,
                 other |-> fnOut.other,
                 ofInput |-> HashesOf(fnIn.url, fnIn.parser),
                 ofOnce |-> HashesOf(fnOut.once, fnIn.parser),
                 ofOther |-> HashesOf(fnOut.other, fnIn.parser)]
    /\ UNCHANGED <<fnIn, scrapeVars, pwVars, clientVars>>

ExtractHeuristic ==
    /\ fnPc = "markup"
    /\ fnPc' = "extracted"
    /\ fnOut' = [job |-> "markup", result |-> extractImagesFromHtml(fnIn.html)]
    /\ UNCHANGED <<fnIn, scrapeVars, pwVars, clientVars>>

NextFn ==
    \/ ApplyTransform
    \/ DeriveHashes
    \/ ExtractHeuristic

SpecFn == InitFn /\ [][NextFn]_vars

\* C18: transformImageUrl applied twice with one size gives what it gives applied once,
\* and a URL the pattern does not match comes back unchanged.
C18_TransformIdempotent ==
    fnPc = "transformed" =>
        /\ fnOut.twice = fnOut.once
        /\ FirstMatch(fnIn.url) = 0 => fnOut.once = fnIn.url
        /\ FirstMatch(fnIn.url) # 0 => fnOut.once[FirstMatch(fnIn.url) + 1] = fnIn.s1

\* a CDN URL whose size segment the first application changed
C18_Witness ==
    /\ fnPc = "transformed"
    /\ fnIn.url = <<"O", "236x", "/", "ab", "/", "h1", ".", "jpg">>
    /\ fnIn.s1 = "736x"
    /\ fnOut.once = <<"O", "736x", "/", "ab", "/", "h1", ".", "jpg">>
    /\ fnOut.twice = fnOut.once

\* C19: for a CDN URL and two sizes, getHashFromUrl and the last-segment split give the
\* same hash for the URL, for its transform to the first size and to the second.
C19_HashSameAcrossSizes ==
    (fnPc = "hashed" /\ IsCdnUrl(fnIn.url, fnIn.parser)) =>
        /\ fnOut.ofOnce = fnOut.ofInput
        /\ fnOut.ofOther = fnOut.ofInput

\* two different renditions of one asset with the same non-empty hash
C19_Witness ==
    /\ fnPc = "hashed"
    /\ IsCdnUrl(fnIn.url, fnIn.parser)
    /\ fnOut.once # fnOut.other
    /\ fnOut.once # fnIn.url
    /\ fnOut.other # fnIn.url
    /\ fnOut.ofOnce = fnOut.ofOther
    /\ fnOut.ofOnce.url = <<"h1">>
    /\ fnOut.ofOnce.last = <<"h1">>

\* C20: on markup without blob every item of the heuristic pass has a well-formed hash
\* (besides a content path, a free size tag and at most 100 occurrences), and the sample
\* of an avatar URL, a URL met 150 times, a URL met 8 times and a malformed URL gives
\* the 8-times one alone.
C20_HeuristicFilter ==
    (fnPc = "extracted" /\ fnIn.html.blob = "absent") =>
        LET images == fnOut.result.images IN
        /\ \A i \in DOMAIN images : isValidPinHash(images[i].id)
        /\ \A i, j \in DOMAIN images : i # j => images[i].id # images[j].id
        /\ fnIn.html = ExclusionSample =>
              (Len(images) = 1 /\ images[1].id = LastSegmentHash(ContentOcc.url))

\* the items whose id was derived from the file name of their URL
UrlDerived(images) == {i \in DOMAIN images : images[i].id = LastSegmentHash(images[i].thumbnail)}

\* C21: every item with a URL-derived identity has a hash of 16 or more hex characters;
\* a URL whose last segment is short or not hex gives no item (heuristic extraction).
C21_UrlDerivedIdsAreHashes ==
    fnPc = "extracted" =>
        LET images == fnOut.result.images IN
        /\ \A i \in UrlDerived(images) : isValidPinHash(images[i].id)
        /\ \A i \in DOMAIN images : images[i].id # BadHash

WellFormed(node) == IsLongNumericId(node.id) /\ node.hasImages /\ node.images["236x"] # NoUrl

\* C22: a blob with k well-formed items and any number of items without thumbnail gives
\* exactly k items with all four sizes, without failure; the heuristic pass adds nothing
\* for an asset the blob already gave.
C22_BlobItemsOnly ==
    (fnPc = "extracted" /\ fnIn.html.blob = "valid") =>
        LET images == fnOut.result.images
            nodes == fnIn.html.nodes
            k == Cardinality({i \in DOMAIN nodes : WellFormed(nodes[i])})
        IN /\ ~fnOut.result.threw
           /\ \A i \in DOMAIN images :
                 /\ images[i].thumbnail # NoUrl
                 /\ images[i].medium # NoUrl
                 /\ images[i].large # NoUrl
                 /\ images[i].original # NoUrl
           /\ Len(images) = k
           /\ \A i, j \in DOMAIN images :
                 i # j => LastSegmentHash(images[i].thumbnail) # LastSegmentHash(images[j].thumbnail)

HeuristicDims == {"170x", "236x", "474x", "564x", "736x", "originals"}

\* C23: on markup without blob every item of the regex fallback comes from a URL of
\* i.pinimg.com whose size segment is 170x, 236x, 474x, 564x, 736x or originals.
C23_OnlyPinDimensions ==
    (fnPc = "extracted" /\ fnIn.html.blob = "absent") =>
        LET images == fnOut.result.images
            occs == fnIn.html.imgs
        IN \A i \in DOMAIN images :
              \A j \in DOMAIN occs :
                 LastSegmentHash(occs[j].url) = images[i].id =>
                     (occs[j].url.host = "i.pinimg.com" /\ occs[j].url.dim \in HeuristicDims)

(***************************************************************************)
(* Step 3c on its own: the loop over the DOM-observed ids missing from the *)
(* network set (route.ts 381-407).  fnIn.missing is the number of missing  *)
(* ids, fnOut counts the requests issued and the records collected, and    *)
(* fnOut.next is the position of the loop in the list.                     *)
(***************************************************************************)
DetailCap == 300

MaxMissing == 302

DetailOutcomes == {"record", "notOk", "noRecord", "throws"}

\* if (collected.length > 300) break, reached on every path but the `continue`
CapReached(outcome, collected) == outcome # "notOk" /\ collected > DetailCap

InitDetail ==
    /\ pc = "idle"
    /\ phase = "idle"
    /\ ScrapeInit
    /\ boardUrl = "board"
    /\ maxPages = 0
    /\ PwInit
    /\ pwBoardUrl = "board"
    /\ ClientInit
    /\ fnPc = "detail"
    /\ fnIn \in {[job |-> "detail", missing |-> n] : n \in {0, 2, MaxMissing}}
    /\ fnOut = [job |-> "detail", next |-> 1, requests |-> 0, collected |-> 0]

\* one iteration: the request for missing[next] and what its response leads to
DetailIteration ==
    /\ fnPc = "detail"
    /\ fnOut.next <= fnIn.missing
    /\ \E outcome \in DetailOutcomes :
          LET collected == IF outcome = "record" THEN fnOut.collected + 1 ELSE fnOut.collected IN
          /\ fnOut' = [job |-> "detail", next |-> fnOut.next + 1,
                       requests |-> fnOut.requests + 1, collected |-> collected]
          /\ fnPc' = IF CapReached(outcome, collected) THEN "detailDone" ELSE "detail"
    /\ UNCHANGED <<fnIn, scrapeVars, pwVars, clientVars>>

\* the list is exhausted
DetailLoopEnds ==
    /\ fnPc = "detail"
    /\ fnOut.next > fnIn.missing
    /\ fnPc' = "detailDone"
    /\ UNCHANGED <<fnIn, fnOut, scrapeVars, pwVars, clientVars>>

NextDetail ==
    \/ DetailIteration
    \/ DetailLoopEnds

SpecDetail == InitDetail /\ [][NextDetail]_vars

\* C24: the number of detail requests of one invocation never exceeds the safety cap.
C24_DetailRequestsCapped ==
    fnPc \in {"detail", "detailDone"} => fnOut.requests <= DetailCap

(***************************************************************************)
(* The scroll loop under every sequence of page heights: each evaluation   *)
(* of document.body.scrollHeight may return any height, so the loop can    *)
(* run up to its cap.  fnOut records what the last pass of the loop saw:   *)
(* the two heights read, lastHeight at that moment, and how it went on.    *)
(***************************************************************************)
InitScroll == InitPw /\ pwBoardUrl = "board"

ScrollAnyHeights ==
    /\ phase = "scrolling"
    /\ IF ~(scrollCount < maxScrolls)
       THEN /\ GoTo("paginating")
            /\ lastHeight' = 0
            /\ pageHeight' = 0
            /\ fnOut' = [job |-> "scroll", current |-> 0, recheck |-> 0, last |-> 0,
                         left |-> "cap"]
            /\ UNCHANGED scrollCount
       ELSE \E currentHeight \in 0..MaxHeight :
              \E recheck \in IF currentHeight = lastHeight THEN 0..MaxHeight
                             ELSE {currentHeight} :
                IF StopsScrolling(currentHeight, recheck, lastHeight)
                THEN /\ GoTo("paginating")
                     /\ lastHeight' = 0
                     /\ pageHeight' = 0
                     /\ fnOut' = [job |-> "scroll", current |-> currentHeight,
                                  recheck |-> recheck, last |-> lastHeight, left |-> "stable"]
                     /\ UNCHANGED scrollCount
                ELSE /\ pageHeight' = recheck
                     /\ lastHeight' = currentHeight
                     /\ scrollCount' = scrollCount + 1
                     /\ fnOut' = [job |-> "scroll", current |-> currentHeight,
                                  recheck |-> recheck, last |-> lastHeight, left |-> "no"]
                     /\ UNCHANGED <<phase, phaseLog>>
    /\ UNCHANGED <<pwBoardUrl, networkPins, playwrightSuccess, browserOpen, failures>>
    /\ UNCHANGED <<pgVars, harvestVars, outVars, scrapeVars, clientVars, fnPc, fnIn>>

NextScroll ==
    \/ PwStart
    \/ LaunchOk
    \/ NavigateOk
    \/ ScrollAnyHeights

SpecScroll == InitScroll /\ [][NextScroll]_vars

\* C25: the scroll loop makes at most 120 passes; it ends before the cap exactly when
\* the height read after the scroll equals the recorded one and the height read again
\* after the wait still equals it; a height that grew at the second look keeps it going.
C25_ScrollLoopBounded ==
    /\ scrollCount <= maxScrolls
    /\ fnOut.job = "scroll" =>
          /\ fnOut.left = "cap" => scrollCount = maxScrolls
          /\ fnOut.left = "stable" =>
                (scrollCount < maxScrolls /\ fnOut.current = fnOut.last
                    /\ fnOut.recheck = fnOut.last)
          /\ fnOut.left = "no" =>
                (phase = "scrolling" /\ ~(fnOut.current = fnOut.last /\ fnOut.recheck = fnOut.last))
          /\ phase # "scrolling" => fnOut.left \in {"cap", "stable"}

\* the loop left one pass short of the cap, on a height unchanged at both looks
C25_Witness ==
    /\ phase = "paginating"
    /\ fnOut.job = "scroll"
    /\ fnOut.left = "stable"
    /\ scrollCount = maxScrolls - 1
    /\ fnOut.last > 0

\* C26: the first feed request of scrapePinterestBoard carries no token; every later one
\* carries the token the response before it returned, as returned; no request follows a
\* response that returned none, and no token is sent again unless returned again.
C26_TokenRoundTrip ==
    [][ feedRequests' = feedRequests + 1 =>
            IF feedRequests = 0
            THEN bookmark = NoToken
            ELSE /\ bookmark # NoToken
                 /\ bookmark = nextBookmark
                 /\ bookmark = tokenCarried ]_vars

\* the third request is out, carrying the second token after the first one was sent
C26_Witness ==
    /\ pc = "fetchingFeed"
    /\ feedRequests = 3
    /\ bookmark = "t1"
    /\ Len(allImages) >= 2

(***************************************************************************)
(* handleScrape (page.tsx 20-77): up to three postJson calls, one after    *)
(* the other.  What an endpoint answers is drawn freely: a 2xx response    *)
(* with or without images, a non-success response, or the abort of the     *)
(* timer (postJson's catch).                                               *)
(***************************************************************************)
Strategies == <<"/api/playwright-scrape", "/api/scrape", "/api/enhanced-scrape">>

SomeImages == <<Item(PinId(1), ContentUrl("236x", Hash(1)), NoUrl, NoUrl, NoUrl, "")>>

\* what a postJson call can return: a success with or without images (the latter also
\* when the body was cut off), a failure whose body carries the route's error, one whose
\* body carries none, one with images, and the record of the catch block
PostJsonResults ==
    { [kind |-> "response", ok |-> TRUE, images |-> SomeImages, error |-> ""],
      [kind |-> "response", ok |-> TRUE, images |-> <<>>, error |-> ""],
      [kind |-> "response", ok |-> FALSE, images |-> <<>>, error |-> RouteErrorText],
      [kind |-> "response", ok |-> FALSE, images |-> <<>>, error |-> ""],
      [kind |-> "response", ok |-> FALSE, images |-> SomeImages, error |-> ""],
      [kind |-> "aborted", ok |-> FALSE, images |-> <<>>, error |-> AbortMessage] }

\* a fallback on failures only
NeedsFallback_OnlyOnFailure(resp) == ~resp.ok

\* !resp.ok || !resp.data?.images?.length
NeedsFallback(resp) == ~resp.ok \/ Len(resp.images) = 0

InitHandle ==
    /\ pc = "idle"
    /\ phase = "idle"
    /\ ScrapeInit
    /\ boardUrl = "board"
    /\ maxPages = 0
    /\ PwInit
    /\ pwBoardUrl = "board"
    /\ ClientInit
    /\ FnIdle

\* the click (the button is enabled while no scrape is loading): nothing happens on an
\* empty input, else the page and the selection are emptied and the first request is made
HandleScrapeStart ==
    /\ hsPc \in {"idle", "finished"}
    /\ \E typed \in BOOLEAN :
          IF ~typed
          THEN /\ hsPc' = "finished"
               /\ UNCHANGED <<loading, hsLog, uiError, uiSuccess, pageImages, selectedImages>>
          ELSE /\ hsPc' = "awaiting"
               /\ loading' = TRUE
               /\ uiError' = ""
               /\ uiSuccess' = NoMsg
               /\ pageImages' = <<>>
               /\ selectedImages' = {}
               /\ hsLog' = <<[endpoint |-> Strategies[1], resp |-> NoResponse]>>
    /\ UNCHANGED <<dlPc, dlAgain, selection, dl, zipFiles, downloading, received, imageSize>>
    /\ UNCHANGED <<scrapeVars, pwVars, fnVars>>

\* the pending postJson returns; the next strategy is requested if this one gave nothing
PostJsonReturns ==
    /\ hsPc = "awaiting"
    /\ \E resp \in PostJsonResults :
          LET n == Len(hsLog)
              done == [hsLog EXCEPT ![n].resp = resp]
          IN /\ received' = resp
             /\ IF NeedsFallback(resp) /\ n < Len(Strategies)
                THEN /\ hsLog' = Append(done, [endpoint |-> Strategies[n + 1], resp |-> NoResponse])
                     /\ UNCHANGED hsPc
                ELSE /\ hsLog' = done
                     /\ hsPc' = "settled"
    /\ UNCHANGED <<dlPc, dlAgain, selection, dl, zipFiles, downloading, uiError, uiSuccess, loading>>
    /\ UNCHANGED <<scrapeVars, pwVars, fnVars, pageVars>>

\* if (!resp.ok) throw new Error(resp.data?.error || 'Failed to scrape board'), and the
\* catch shows its message; else the images are set; finally setLoading(false)
HandleScrapeFinishes ==
    /\ hsPc = "settled"
    /\ hsPc' = "finished"
    /\ IF ~received.ok
       THEN /\ uiError' = IF received.error # "" THEN received.error
                                                ELSE "Failed to scrape board"
            /\ UNCHANGED <<uiSuccess, pageImages, selectedImages>>
       ELSE /\ pageImages' = received.images
            /\ selectedImages' = Ids(received.images)
            /\ uiSuccess' = [kind |-> "fetched", downloaded |-> Len(received.images), failed |-> 0]
            /\ UNCHANGED uiError
    /\ loading' = FALSE
    /\ UNCHANGED <<dlPc, dlAgain, selection, dl, zipFiles, downloading, received, hsLog, imageSize>>
    /\ UNCHANGED <<scrapeVars, pwVars, fnVars>>

NextHandle ==
    \/ ToggleImageSelection
    \/ SelectAll
    \/ DeselectAll
    \/ SetImageSize
    \/ HandleScrapeStart
    \/ PostJsonReturns
    \/ HandleScrapeFinishes

SpecHandle == InitHandle /\ [][NextHandle]_vars

GaveNothing(resp) == resp.kind = "aborted" \/ ~resp.ok \/ resp.images = <<>>

\* C27: the requests go out in the order playwright-scrape, scrape, enhanced-scrape,
\* each after the one before it has returned; a later one is made exactly when every
\* earlier one failed or gave no image; there are at most three; loading is false when
\* handleScrape is over.
C27_StrategyOrder ==
    /\ Len(hsLog) <= 3
    /\ \A i \in DOMAIN hsLog :
          /\ hsLog[i].endpoint = Strategies[i]
          /\ i < Len(hsLog) => (hsLog[i].resp # NoResponse /\ GaveNothing(hsLog[i].resp))
    /\ (hsPc \in {"settled", "finished"} /\ hsLog # <<>>) =>
          /\ hsLog[Len(hsLog)].resp # NoResponse
          /\ Len(hsLog) < 3 => ~GaveNothing(hsLog[Len(hsLog)].resp)
    /\ hsPc = "awaiting" => (hsLog # <<>> /\ hsLog[Len(hsLog)].resp = NoResponse /\ loading)
    /\ hsPc = "finished" => ~loading

\* all three strategies were needed: the first timed out, the second answered without
\* images, the third gave images
C27_Witness ==
    /\ hsPc = "finished"
    /\ Len(hsLog) = 3
    /\ hsLog[1].resp.kind = "aborted"
    /\ hsLog[2].resp = [kind |-> "response", ok |-> TRUE, images |-> <<>>, error |-> ""]
    /\ hsLog[3].resp.images # <<>>
    /\ hsLog[3].resp.ok
    /\ ~loading
    /\ uiError = ""

\* C28: no two items of the fused list reference the same asset, i.e. have image URLs
\* with the same identity hash; a harvested URL with the hash of a network item adds no
\* second entry for it.
C28_OneItemPerAsset ==
    PwAnswered =>
        \A i, j \in DOMAIN finalImages :
            IdentityHash(finalImages[i]) = IdentityHash(finalImages[j]) => i = j

\* C29: every browser the route launched is closed when the route has returned its
\* response, on the success path and when a phase after the launch failed.
C29_BrowserClosedAtResponse ==
    phase = "responded" => ~browserOpen

\* what the fusion reads: the copy of networkPins into imagesMap and the hash and id sets
\* derived from networkPins come from the same value of networkPins
FusedFromOneSnapshot ==
    PwAnswered =>
        /\ finalImages =
               Fusion(networkAtFusion, harvestedUrls, extractImagesFromHtml(finalHtml).images)
        /\ SubSeq(finalImages, 1, Len(networkAtFusion)) = networkAtFusion

\* every insertion into networkPins leaves the entries it already holds as they are
FirstValueKept ==
    \A i \in DOMAIN networkPins : i \in DOMAIN networkPins' /\ networkPins'[i] = networkPins[i]

\* C30: whatever the order of the response callbacks, the scroll loop, the in-session
\* merges and the static fetch, networkPins holds one entry per id, an entry keeps the
\* first value inserted for its id, and the fused list is computed from one snapshot of
\* networkPins.
C30_NetworkPinsOneSnapshot ==
    /\ [](NoDuplicateIds(networkPins))
    /\ [][FirstValueKept]_vars
    /\ []FusedFromOneSnapshot

\* the navigation failed with the browser left open, so every entry of networkPins came
\* from a callback; PinA kept its first title and the fusion added items validated
\* against the same entries
C30_Witness ==
    /\ PwAnswered
    /\ failures = {"Navigating"}
    /\ browserOpen
    /\ Len(networkAtFusion) >= 2
    /\ \E i \in DOMAIN networkAtFusion : networkAtFusion[i].id = PinId(1)
    /\ Len(finalImages) > Len(networkAtFusion)

====
